---------------------------- MODULE Spec2Model ----------------------------
(***************************************************************************)
(* Cookie Vault: the cookie restoration reconciler (restoreCookies) and    *)
(* the versioned backup codec (encryptData / decryptData).                 *)
(*                                                                         *)
(* An optional object field of the TypeScript source is None (undefined,   *)
(* or a deleted key) or Some(v).  Strings that the code inspects or        *)
(* concatenates (domains, paths, URLs, JSON text) are sequences of         *)
(* one-character tokens.                                                   *)
(***************************************************************************)
EXTENDS Integers, Sequences, FiniteSets, TLC

VARIABLES
    \* ---- restoreCookies (src/src/utils/cookies.ts) ----
    cookies,        \* the input list
    isExtension,    \* chrome.cookies is available
    onProgress,     \* "none" (not provided) | "given" (a callback, which may throw)
    pc,             \* position of the async function
    i,              \* loop index, 0-based as in the source
    success, failed, skipped,
    details,        \* CookieRestoreDetail[]
    setDetails,     \* the request draft of the current iteration
    primaryRes,     \* how the primary store call of this iteration settled
    retryRes,       \* how the retried store call of this iteration settled
    setCalls,       \* every browser.cookies.set call issued: [idx, req]
    progressCalls,  \* every onProgress call made: <<current, total>>
    now,            \* Date.now() / 1000 as last read
    result,         \* the resolved RestoreResult, or None
    store,          \* how the store answers: None (any way, call by call) or
                    \* a fixed answer per record and attempt
    earlier,        \* the calls and summary of an earlier run, or None
    \* ---- encryptData / decryptData (src/unnamed/part_004) ----
    cpc,            \* "idle" | "encrypted" (a file is stored) | "decrypted"
    data,           \* the value given to encryptData
    password,       \* the password given to encryptData
    artifact,       \* the parsed backup file (JSON object), as stored
    tampering,      \* what was done to the stored file since it was written
    encProgress,    \* the onProgress calls of the encode
    encCalls,       \* the encoder entered and the crypto calls of the encode
    decPassword,    \* the password given to decryptData
    decResult,      \* how decryptData settled
    decProgress,    \* the onProgress calls of the decode
    decCalls,       \* the decoder entered and the crypto calls of the decode
    \* ---- groupCookiesByDomain / filterCookiesByDomains (cookies.ts) ----
    groups,         \* the DomainGroup[] returned for cookies, or None
    selectedDomains,\* the Set given to filterCookiesByDomains
    filtered,       \* the list returned by filterCookiesByDomains, or None
    \* ---- getAllCookies (cookies.ts) ----
    fpc,            \* position of the async function
    unpartitioned,  \* what browser.cookies.getAll({}) resolved to
    partitionedQuery, \* "none" | "resolved" | "rejected": the second getAll
    partitioned,    \* the partitioned list after the try/catch
    fetched,        \* how getAllCookies settled, or None
    \* ---- the popup (src/unnamed/part_006): React state and pending calls ----
    activeTab,      \* "backup" | "restore"
    popupStatus,    \* status: "idle" | "loading" | "success" | "error"
    backupStep,     \* "password" | "preview"
    restoreStep,    \* "file" | "preview"
    popupPassword,  \* password is not the empty string
    confirmMatches, \* confirmPassword equals password
    chosenFile,     \* file is not null
    domainGroups,   \* the selected flag of each DomainGroup
    restoreDetails, \* "empty" | "set": the outcomes shown by the warnings panel
    pending         \* per operation, the calls whose promise has not settled

restoreVars == <<cookies, isExtension, onProgress, pc, i, success, failed,
                 skipped, details, setDetails, primaryRes, retryRes,
                 setCalls, progressCalls, now, result, store, earlier>>

codecVars == <<cpc, data, password, artifact, tampering, encProgress, encCalls,
               decPassword, decResult, decProgress, decCalls>>

domainVars == <<groups, selectedDomains, filtered>>

fetchVars == <<fpc, unpartitioned, partitionedQuery, partitioned, fetched>>

popupVars == <<activeTab, popupStatus, backupStep, restoreStep, popupPassword,
               confirmMatches, chosenFile, domainGroups, restoreDetails, pending>>

vars == <<restoreVars, codecVars, domainVars, fetchVars, popupVars>>

None == <<>>
Some(v) == <<v>>

(***************************************************************************)
(* Bounds of the model.                                                    *)
(***************************************************************************)
MaxCookies == 2     \* longest input list
MaxRecords == 2     \* longest record list given to encryptData
MaxGrouped == 3     \* longest list given to groupCookiesByDomain
MaxFetched == 2     \* longest list a browser.cookies.getAll call resolves to
MaxInFlight == 2    \* most calls of the popup pending at one time

\* part_004 line 37: const chunkSize = 1024 * 1024.  The model scales the
\* threshold down so that plaintexts at, below and above it are enumerated.
chunkSize == 11

\* Date.now() / 1000: the readings the clock can give, in epoch seconds
ClockReadings == {2, 3}
FirstReading == CHOOSE t \in ClockReadings : \A u \in ClockReadings : t <= u

(***************************************************************************)
(* Cookie records (interface Cookie).  The fields that decide the control  *)
(* flow (secure, expirationDate) range over all their cases; the fields    *)
(* that are only copied into the request and the outcome come in bundles.  *)
(* sameSite takes each of its four values and is absent once: a shape      *)
(* gives the value of its insecure and of its secure records.              *)
(* An expirationDate of 2 is not in the past at the first clock reading    *)
(* and is in the past at the second.                                       *)
(***************************************************************************)
CookieShapes ==
    { [name |-> "sid", value |-> "v1", domain |-> <<".", "a", ".", "c">>,
       path |-> <<"/">>, httpOnly |-> TRUE, sameSite |-> Some("lax"),
       sameSiteSecure |-> Some("no_restriction"),
       session |-> None, hostOnly |-> None],
      [name |-> "tok", value |-> "v2", domain |-> <<"b", ".", "c">>,
       path |-> <<"/", "p">>, httpOnly |-> FALSE,
       sameSite |-> Some("unspecified"), sameSiteSecure |-> Some("strict"),
       session |-> Some(TRUE), hostOnly |-> Some(TRUE)] }

\* a record with no sameSite and with its flags explicitly false
PlainShape ==
    [name |-> "pref", value |-> "v3", domain |-> <<"a", ".", "c">>,
     path |-> <<"/">>, httpOnly |-> FALSE, sameSite |-> None,
     sameSiteSecure |-> None,
     session |-> Some(FALSE), hostOnly |-> Some(FALSE)]

ExpirationDates == {None, Some(0), Some(2)}

MakeCookie(s, sec, exp) ==
    [name |-> s.name, value |-> s.value, domain |-> s.domain, path |-> s.path,
     secure |-> sec, httpOnly |-> s.httpOnly, expirationDate |-> exp,
     storeId |-> "0",
     sameSite |-> IF sec THEN s.sameSiteSecure ELSE s.sameSite,
     session |-> s.session,
     hostOnly |-> s.hostOnly]

Cookie ==
    { MakeCookie(s, sec, exp) :
        s \in CookieShapes, sec \in BOOLEAN, exp \in ExpirationDates }
    \cup { MakeCookie(PlainShape, FALSE, None) }

\* the records that lists of three and more are made of: one of each shape
\* and, for the shapes that vary, each way through the loop body (insecure
\* and never expiring, insecure and expiring between the clock readings,
\* secure)
LongListCookies ==
    { c \in Cookie : /\ c.expirationDate # Some(0)
                     /\ c.secure => c.expirationDate = None }

\* the input lists: every list of up to two records, and the longer lists up
\* to MaxCookies over LongListCookies
CookieLists ==
    UNION { [1..n -> Cookie] : n \in { m \in 0..2 : m <= MaxCookies } }
    \cup UNION { [1..n -> LongListCookies] : n \in 3..MaxCookies }

(***************************************************************************)
(* What a browser.cookies.set promise settles to: fulfilled, rejected with *)
(* an Error carrying a message, or rejected with a value that is no Error. *)
(***************************************************************************)
Fulfilled == [kind |-> "ok"]
Rejections == { [kind |-> "Error", message |-> "Failed"],
                [kind |-> "Error", message |-> "Permission denied"],
                [kind |-> "nonError"] }
Settlements == {Fulfilled} \cup Rejections
NotSettled == [kind |-> "none"]

\* JavaScript truthiness of an optional number field and of an optional
\* boolean field
TruthyNumber(v) == v # None /\ v # Some(0)
TruthyFlag(v) == v = Some(TRUE)

StartsWithDot(s) == Len(s) > 0 /\ Head(s) = "."

\* domain.startsWith('.') ? domain.slice(1) : domain
StripDot(domain) == IF StartsWithDot(domain) THEN Tail(domain) ELSE domain

\* mutant: the leading dot of the domain is kept
buildUrlKeepsDot(secure, domain, path) ==
    <<"http">> \o (IF secure THEN <<"s">> ELSE <<>>) \o <<"://">>
        \o domain \o path

\* cookies.ts line 171: buildUrl
buildUrl(secure, domain, path) ==
    <<"http">> \o (IF secure THEN <<"s">> ELSE <<>>) \o <<"://">>
        \o StripDot(domain) \o path

\* cookies.ts line 157: the expiry test of one record at clock reading t
IsExpired(cookie, t) ==
    TruthyNumber(cookie.expirationDate) /\ cookie.expirationDate[1] < t

IsEnforceableSameSite(v) ==
    v \in {Some("no_restriction"), Some("lax"), Some("strict")}

\* mutant: the draft keeps the domain of a host-only record
DraftDomainKept(cookie) == Some(cookie.domain)

\* cookies.ts lines 188, 203-205: the draft's domain, deleted for hostOnly
DraftDomain(cookie) ==
    IF TruthyFlag(cookie.hostOnly) THEN None ELSE Some(cookie.domain)

\* mutant: the draft keeps the expirationDate of a session record
DraftExpirationDateKept(cookie) == cookie.expirationDate

\* cookies.ts lines 192, 206-208: the draft's expirationDate, deleted for
\* a session record
DraftExpirationDate(cookie) ==
    IF TruthyFlag(cookie.session) THEN None ELSE cookie.expirationDate

\* mutant: whatever sameSite the record has is passed on
DraftSameSitePassed(cookie) == cookie.sameSite

\* cookies.ts lines 195-201: sameSite is set only for the three values the
\* store enforces
DraftSameSite(cookie) ==
    IF IsEnforceableSameSite(cookie.sameSite) THEN cookie.sameSite ELSE None

\* cookies.ts lines 182-208: the primary request for a record
PrimaryRequest(cookie) ==
    [url |-> buildUrl(cookie.secure, cookie.domain, cookie.path),
     name |-> cookie.name,
     value |-> cookie.value,
     domain |-> DraftDomain(cookie),
     path |-> cookie.path,
     secure |-> cookie.secure,
     httpOnly |-> cookie.httpOnly,
     expirationDate |-> DraftExpirationDate(cookie),
     sameSite |-> DraftSameSite(cookie)]

\* mutant: the retry rebuilds the URL but leaves the draft's secure flag
RetryRequestKeepsSecure(draft, cookie) ==
    [draft EXCEPT !.url = buildUrl(TRUE, cookie.domain, cookie.path)]

\* cookies.ts lines 224-225: the draft mutated for the HTTPS retry
RetryRequest(draft, cookie) ==
    [draft EXCEPT !.secure = TRUE,
                  !.url = buildUrl(TRUE, cookie.domain, cookie.path)]

\* mutant: no failed record is retried
ShouldRetryNever(cookie) == FALSE

\* mutant: every failed record is retried
ShouldRetryAlways(cookie) == TRUE

\* cookies.ts line 223: only a record that was not already secure is retried
ShouldRetry(cookie) == ~cookie.secure

\* mutant: the caught error's message is dropped
ErrorMessageUnknown(err) == "Unknown error"

\* cookies.ts line 238: retryError instanceof Error ? retryError.message : ...
ErrorMessage(err) ==
    IF err.kind = "Error" THEN err.message ELSE "Unknown error"

\* mutant: a failed retry reports the error of the primary attempt
ReportedErrorPrimary(primaryError, retryError) == primaryError

\* cookies.ts lines 218, 237: the inner catch binds retryError, which hides
\* the e of the outer catch unless the record was secure and e was rethrown
ReportedError(primaryError, retryError) == retryError

\* mutant: the outcome carries the normalized domain, not the record's
DetailNormalized(cookie, status, reason) ==
    [name |-> cookie.name, domain |-> StripDot(cookie.domain),
     status |-> status, reason |-> reason]

\* cookies.ts lines 159-164, 213-217, 228-233, 241-246: one outcome
Detail(cookie, status, reason) ==
    [name |-> cookie.name, domain |-> cookie.domain,
     status |-> status, reason |-> reason]

EmptyDraft == [url |-> None]

(***************************************************************************)
(* restoreCookies as a state machine.  A step runs from one await to the   *)
(* next; onProgress is called synchronously inside the step that records   *)
(* the outcome, and a throw from it rejects the whole call.                *)
(***************************************************************************)
InitRestore ==
    /\ cookies \in CookieLists
    /\ isExtension \in BOOLEAN
    /\ onProgress \in {"none", "given"}
    /\ pc = "idle"
    /\ i = 0
    /\ success = 0 /\ failed = 0 /\ skipped = 0
    /\ details = <<>>
    /\ setDetails = EmptyDraft
    /\ primaryRes = NotSettled
    /\ retryRes = NotSettled
    /\ setCalls = <<>>
    /\ progressCalls = <<>>
    /\ now = FirstReading
    /\ result = None
    /\ store = None
    /\ earlier = None

total == Len(cookies)

\* the settlements browser.cookies.set can give to the call made for the
\* record at 0-based index idx (attempt is "primary" or "retry"): any of
\* them, or the one answer of a store that answers the same way every time
StoreAnswers(idx, attempt) ==
    IF store = None THEN Settlements ELSE {store[1][idx + 1][attempt]}

\* mutant: the HTTPS retry writes secure = true through to the record
InputAfterRetryShared(list, idx) == [list EXCEPT ![idx + 1].secure = TRUE]

\* cookies.ts lines 184-193, 224-225: the draft is an object literal of its
\* own, so forcing secure on it leaves the input list as it was
InputAfterRetry(list, idx) == list

\* mutant: progress reports the 0-based index
AfterRecordZeroBased(threw) ==
    /\ progressCalls' = IF onProgress = "none" THEN progressCalls
                        ELSE Append(progressCalls, <<i, total>>)
    /\ IF threw
       THEN /\ pc' = "rejected"
            /\ i' = i
       ELSE /\ pc' = "loop"
            /\ i' = i + 1

\* mutant: a failed record ends the loop
AfterRecordStopOnFailure(threw) ==
    /\ progressCalls' = IF onProgress = "none" THEN progressCalls
                        ELSE Append(progressCalls, <<i + 1, total>>)
    /\ IF threw
       THEN /\ pc' = "rejected"
            /\ i' = i
       ELSE /\ pc' = "loop"
            /\ i' = IF details'[Len(details')].status = "failed"
                    THEN total ELSE i + 1

\* mutant: the loop moves on without the progress call
AfterRecordWithoutProgress(threw) ==
    /\ progressCalls' = progressCalls
    /\ pc' = "loop"
    /\ i' = i + 1

\* mutant: a throw of the callback is caught, the loop is left and the
\* outcomes gathered so far are returned
AfterRecordBreaksOnThrow(threw) ==
    /\ progressCalls' = IF onProgress = "none" THEN progressCalls
                        ELSE Append(progressCalls, <<i + 1, total>>)
    /\ pc' = "loop"
    /\ i' = IF threw THEN total ELSE i + 1

\* cookies.ts lines 165-167 / 250-252, then the loop's i++: the progress
\* call for the record just recorded.  threw is whether the callback throws.
AfterRecord(threw) ==
    /\ progressCalls' = IF onProgress = "none" THEN progressCalls
                        ELSE Append(progressCalls, <<i + 1, total>>)
    /\ IF threw
       THEN /\ pc' = "rejected"
            /\ i' = i
       ELSE /\ pc' = "loop"
            /\ i' = i + 1

\* the ways one onProgress call can end: a callback that is given may throw
CallbackMayThrow == IF onProgress = "given" THEN BOOLEAN ELSE {FALSE}

\* mutant: the simulated restore leaves expired records out as skipped
SimulatedResultSkippingExpired(list) ==
    LET Expired(k) == \E t \in ClockReadings : IsExpired(list[k], t)
        n == Cardinality({ k \in DOMAIN list : Expired(k) })
    IN  [success |-> Len(list) - n, failed |-> 0, skipped |-> n,
         details |-> [k \in 1..Len(list) |->
             IF Expired(k)
             THEN Detail(list[k], "skipped", Some("Cookie has expired"))
             ELSE Detail(list[k], "success", None)]]

\* cookies.ts lines 132-143: outside an extension the restore is simulated
SimulatedResult(list) ==
    [success |-> Len(list), failed |-> 0, skipped |-> 0,
     details |-> [k \in 1..Len(list) |-> Detail(list[k], "success", None)]]

\* cookies.ts lines 126-149: the call, up to the loop
Call ==
    /\ UNCHANGED <<codecVars, domainVars, fetchVars, popupVars>>
    /\ pc = "idle"
    /\ IF ~isExtension
       THEN /\ pc' = "done"
            /\ result' = Some(SimulatedResult(cookies))
       ELSE /\ pc' = "loop"
            /\ result' = result
    /\ UNCHANGED <<cookies, isExtension, onProgress, store, earlier, i,
                   success, failed, skipped,
                   details, setDetails, primaryRes, retryRes, setCalls,
                   progressCalls, now>>

\* cookies.ts lines 151-211: one iteration up to the skip or the primary call
LoopStep ==
    /\ UNCHANGED <<codecVars, domainVars, fetchVars, popupVars>>
    /\ pc = "loop"
    /\ i < total
    /\ \E t \in { u \in ClockReadings : u >= now } :
        LET cookie == cookies[i + 1] IN
        /\ now' = t
        /\ primaryRes' = NotSettled
        /\ retryRes' = NotSettled
        /\ IF IsExpired(cookie, t)
           THEN /\ skipped' = skipped + 1
                /\ details' = Append(details,
                                  Detail(cookie, "skipped", Some("Cookie has expired")))
                /\ setDetails' = EmptyDraft
                /\ \E threw \in CallbackMayThrow : AfterRecord(threw)
                /\ UNCHANGED setCalls
           ELSE /\ setDetails' = PrimaryRequest(cookie)
                /\ setCalls' = Append(setCalls,
                                  [idx |-> i, req |-> PrimaryRequest(cookie)])
                /\ pc' = "awaitPrimary"
                /\ UNCHANGED <<skipped, details, progressCalls, i>>
    /\ UNCHANGED <<cookies, isExtension, onProgress, store, earlier,
                   success, failed, result>>

\* cookies.ts lines 211-236: the primary store call settles
PrimarySettles ==
    /\ UNCHANGED <<codecVars, domainVars, fetchVars, popupVars>>
    /\ pc = "awaitPrimary"
    /\ \E res \in StoreAnswers(i, "primary") :
        LET cookie == cookies[i + 1] IN
        /\ primaryRes' = res
        /\ IF res = Fulfilled
           THEN /\ success' = success + 1
                /\ details' = Append(details, Detail(cookie, "success", None))
                /\ \E threw \in CallbackMayThrow : AfterRecord(threw)
                /\ UNCHANGED <<cookies, failed, setDetails, setCalls>>
           ELSE IF ShouldRetry(cookie)
           THEN /\ setDetails' = RetryRequest(setDetails, cookie)
                /\ setCalls' = Append(setCalls,
                                  [idx |-> i, req |-> RetryRequest(setDetails, cookie)])
                /\ pc' = "awaitRetry"
                /\ cookies' = InputAfterRetry(cookies, i)
                /\ UNCHANGED <<success, failed, details, progressCalls, i>>
           ELSE /\ failed' = failed + 1
                /\ details' = Append(details,
                                  Detail(cookie, "failed", Some(ErrorMessage(res))))
                /\ \E threw \in CallbackMayThrow : AfterRecord(threw)
                /\ UNCHANGED <<cookies, success, setDetails, setCalls>>
    /\ UNCHANGED <<isExtension, onProgress, store, earlier, skipped, retryRes,
                   now, result>>

\* cookies.ts lines 226-247: the retried store call settles
RetrySettles ==
    /\ UNCHANGED <<codecVars, domainVars, fetchVars, popupVars>>
    /\ pc = "awaitRetry"
    /\ \E res \in StoreAnswers(i, "retry") :
        LET cookie == cookies[i + 1] IN
        /\ retryRes' = res
        /\ IF res = Fulfilled
           THEN /\ success' = success + 1
                /\ details' = Append(details,
                                  Detail(cookie, "success", Some("Upgraded to HTTPS")))
                /\ UNCHANGED failed
           ELSE /\ failed' = failed + 1
                /\ details' = Append(details,
                                  Detail(cookie, "failed",
                                      Some(ErrorMessage(ReportedError(primaryRes, res)))))
                /\ UNCHANGED success
        /\ \E threw \in CallbackMayThrow : AfterRecord(threw)
    /\ UNCHANGED <<cookies, isExtension, onProgress, store, earlier,
                   skipped, setDetails,
                   primaryRes, setCalls, now, result>>

\* cookies.ts line 255: the loop is over, the promise resolves
Return ==
    /\ UNCHANGED <<codecVars, domainVars, fetchVars, popupVars>>
    /\ pc = "loop"
    /\ i = total
    /\ pc' = "done"
    /\ result' = Some([success |-> success, failed |-> failed,
                       skipped |-> skipped, details |-> details])
    \* the iteration's locals are out of scope
    /\ setDetails' = EmptyDraft
    /\ primaryRes' = NotSettled
    /\ retryRes' = NotSettled
    /\ UNCHANGED <<cookies, isExtension, onProgress, store, earlier, i,
                   success, failed, skipped,
                   details, setCalls, progressCalls, now>>

NextRestore ==
    \/ Call
    \/ LoopStep
    \/ PrimarySettles
    \/ RetrySettles
    \/ Return

(***************************************************************************)
(* groupCookiesByDomain and filterCookiesByDomains, applied to a list of    *)
(* records.                                                                *)
(***************************************************************************)
\* a record whose domain starts with two dots
DottedShape ==
    [name |-> "dot", value |-> "v4", domain |-> <<".", ".", "a", ".", "c">>,
     path |-> <<"/">>, httpOnly |-> FALSE, sameSite |-> None,
     sameSiteSecure |-> None,
     session |-> None, hostOnly |-> None]

\* the records that are grouped and filtered: one per domain spelling
GroupedCookies ==
    { MakeCookie(s, FALSE, None) :
        s \in CookieShapes \cup {PlainShape, DottedShape} }

GroupedLists == UNION { [1..n -> GroupedCookies] : n \in 0..MaxGrouped }

\* the domain names a selection can hold
SelectableDomains ==
    { <<"a", ".", "c">>, <<"b", ".", "c">>, <<".", "a", ".", "c">> }

RECURSIVE StripDots(_)
\* mutant: the Map is keyed by the domain without any of its leading dots
StripDots(domain) ==
    IF StartsWithDot(domain) THEN StripDots(Tail(domain)) ELSE domain

\* cookies.ts line 46: the Map key of a record, its domain without one
\* leading dot
GroupKey(domain) == StripDot(domain)

RECURSIVE DomainMap(_)
\* cookies.ts lines 42-51: the Map from normalized domain to records, as its
\* entries in insertion order
DomainMap(list) ==
    IF list = <<>> THEN <<>>
    ELSE LET before == DomainMap(SubSeq(list, 1, Len(list) - 1))
             cookie == list[Len(list)]
             domain == GroupKey(cookie.domain)
             existing == { k \in DOMAIN before : before[k].domain = domain }
         IN IF existing = {}
            THEN Append(before, [domain |-> domain, cookies |-> <<cookie>>])
            ELSE [k \in DOMAIN before |->
                    IF k \in existing
                    THEN [before[k] EXCEPT !.cookies = Append(@, cookie)]
                    ELSE before[k]]

\* mutant: the groups stay in the order of the Map
SortByCountKeepsOrder(list) == list

RECURSIVE SortByCount(_)
\* cookies.ts line 60: .sort((a, b) => b.cookies.length - a.cookies.length),
\* a stable sort
SortByCount(list) ==
    IF list = <<>> THEN <<>>
    ELSE LET sorted == SortByCount(SubSeq(list, 1, Len(list) - 1))
             group == list[Len(list)]
             ahead == Cardinality({ k \in DOMAIN sorted :
                         Len(sorted[k].cookies) >= Len(group.cookies) })
         IN SubSeq(sorted, 1, ahead) \o <<group>>
                \o SubSeq(sorted, ahead + 1, Len(sorted))

\* cookies.ts lines 41-63: groupCookiesByDomain
groupCookiesByDomain(list) ==
    LET entries == DomainMap(list) IN
    SortByCount([k \in DOMAIN entries |->
                    [domain |-> entries[k].domain,
                     cookies |-> entries[k].cookies,
                     selected |-> TRUE]])

\* mutant: the test is made on the domain as stored
filterCookiesByDomainsRaw(list, selected) ==
    SelectSeq(list, LAMBDA cookie : cookie.domain \in selected)

\* cookies.ts lines 71-76: filterCookiesByDomains
filterCookiesByDomains(list, selected) ==
    SelectSeq(list, LAMBDA cookie : StripDot(cookie.domain) \in selected)

\* neither function has been applied
DomainsIdle ==
    /\ groups = None
    /\ selectedDomains = {}
    /\ filtered = None

\* getAllCookies has not been called
FetchIdle ==
    /\ fpc = "idle"
    /\ unpartitioned = <<>>
    /\ partitionedQuery = "none"
    /\ partitioned = <<>>
    /\ fetched = None

\* Operations of the popup whose promise can be pending
Operations == {"getAllCookies", "encryptData", "decryptData", "restoreCookies"}

\* part_006 lines 38-53: the initial React state, nothing pending
PopupIdle ==
    /\ activeTab = "backup"
    /\ popupStatus = "idle"
    /\ backupStep = "password"
    /\ restoreStep = "file"
    /\ popupPassword = FALSE
    /\ confirmMatches = TRUE
    /\ chosenFile = FALSE
    /\ domainGroups = <<>>
    /\ restoreDetails = "empty"
    /\ pending = [op \in Operations |-> 0]

\* no encode or decode is running
CodecIdle ==
    /\ cpc = "idle"
    /\ data = None
    /\ password = None
    /\ artifact = None
    /\ tampering = "none"
    /\ encProgress = <<>>
    /\ encCalls = <<>>
    /\ decPassword = None
    /\ decResult = None
    /\ decProgress = <<>>
    /\ decCalls = <<>>

\* no restore is running
RestoreIdle ==
    /\ cookies = <<>>
    /\ isExtension = TRUE
    /\ onProgress = "none"
    /\ pc = "idle"
    /\ i = 0
    /\ success = 0 /\ failed = 0 /\ skipped = 0
    /\ details = <<>>
    /\ setDetails = EmptyDraft
    /\ primaryRes = NotSettled
    /\ retryRes = NotSettled
    /\ setCalls = <<>>
    /\ progressCalls = <<>>
    /\ now = FirstReading
    /\ result = None
    /\ store = None
    /\ earlier = None

InitDomains ==
    /\ cookies \in GroupedLists
    /\ isExtension = TRUE
    /\ onProgress = "none"
    /\ pc = "idle"
    /\ i = 0
    /\ success = 0 /\ failed = 0 /\ skipped = 0
    /\ details = <<>>
    /\ setDetails = EmptyDraft
    /\ primaryRes = NotSettled
    /\ retryRes = NotSettled
    /\ setCalls = <<>>
    /\ progressCalls = <<>>
    /\ now = FirstReading
    /\ result = None
    /\ store = None
    /\ earlier = None
    /\ DomainsIdle /\ FetchIdle /\ PopupIdle
    /\ CodecIdle

\* groupCookiesByDomain(cookies)
Group ==
    /\ groups = None
    /\ groups' = Some(groupCookiesByDomain(cookies))
    /\ UNCHANGED <<selectedDomains, filtered, restoreVars, codecVars, fetchVars, popupVars>>

\* filterCookiesByDomains(cookies, selected)
Filter ==
    /\ filtered = None
    /\ \E selected \in SUBSET SelectableDomains :
          /\ selectedDomains' = selected
          /\ filtered' = Some(filterCookiesByDomains(cookies, selected))
    /\ UNCHANGED <<groups, restoreVars, codecVars, fetchVars, popupVars>>

NextDomains ==
    \/ Group
    \/ Filter

Init == InitRestore /\ CodecIdle /\ DomainsIdle /\ FetchIdle /\ PopupIdle

Next == NextRestore

Spec == Init /\ [][Next]_vars

SpecDomains == InitDomains /\ [][NextDomains]_vars

(***************************************************************************)
(* getAllCookies.  The store holds cookies whose name and path can contain *)
(* any character a browser accepts, "|" and "/" included; a partitioned    *)
(* cookie carries a partitionKey with its top-level site.                  *)
(***************************************************************************)
StoreCookie(name, path, partitionKey, value) ==
    [domain |-> <<"d">>, name |-> name, path |-> path,
     partitionKey |-> partitionKey, value |-> value]

TopLevelSite(site) == [topLevelSite |-> site]

\* the cookies a query can resolve to: a cookie, the same cookie with another
\* value, its partitioned twin, one with a partitionKey without a site, and
\* two cookies whose names and paths differ
StoreCookies ==
    { StoreCookie(<<"x">>, <<"/">>, None, "v1"),
      StoreCookie(<<"x">>, <<"/">>, None, "v2"),
      StoreCookie(<<"x">>, <<"/">>, Some(TopLevelSite(Some(<<"s">>))), "v1"),
      StoreCookie(<<"x">>, <<"/">>, Some(TopLevelSite(None)), "v3"),
      StoreCookie(<<"x", "|", "/">>, <<"/">>, None, "v4"),
      StoreCookie(<<"x">>, <<"/", "|", "/">>, None, "v5") }

QueryAnswers == UNION { [1..n -> StoreCookies] : n \in 0..MaxFetched }

\* cookies.ts lines 81-91: the one cookie returned outside an extension
MockCookie ==
    [domain |-> <<"e", "x", "a", "m", "p", "l", "e", ".", "c", "o", "m">>,
     name |-> <<"t", "e", "s", "t", "_", "c", "o", "o", "k", "i", "e">>,
     path |-> <<"/">>, partitionKey |-> None, value |-> "test_value"]

\* cookies.ts line 115: (cookie as any).partitionKey?.topLevelSite || ''
PartitionSite(cookie) ==
    IF cookie.partitionKey = None THEN <<>>
    ELSE IF cookie.partitionKey[1].topLevelSite = None THEN <<>>
    ELSE cookie.partitionKey[1].topLevelSite[1]

\* cookies.ts line 116: the template literal that joins the four parts with "|"
DedupKey(cookie) ==
    cookie.domain \o <<"|">> \o cookie.name \o <<"|">> \o cookie.path
        \o <<"|">> \o PartitionSite(cookie)

RECURSIVE FilterUnseen(_, _)
\* cookies.ts lines 112-120: the filter over allCookies with the Set seen
FilterUnseen(list, seen) ==
    IF list = <<>> THEN <<>>
    ELSE LET key == DedupKey(Head(list)) IN
         IF key \in seen
         THEN FilterUnseen(Tail(list), seen)
         ELSE <<Head(list)>> \o FilterUnseen(Tail(list), seen \cup {key})

\* cookies.ts lines 111-120: merge and deduplicate
Deduplicate(first, second) == FilterUnseen(first \o second, {})

InitFetch ==
    /\ cookies = <<>>
    /\ isExtension \in BOOLEAN
    /\ onProgress = "none"
    /\ pc = "idle"
    /\ i = 0
    /\ success = 0 /\ failed = 0 /\ skipped = 0
    /\ details = <<>>
    /\ setDetails = EmptyDraft
    /\ primaryRes = NotSettled
    /\ retryRes = NotSettled
    /\ setCalls = <<>>
    /\ progressCalls = <<>>
    /\ now = FirstReading
    /\ result = None
    /\ store = None
    /\ earlier = None
    /\ CodecIdle
    /\ DomainsIdle
    /\ FetchIdle
    /\ PopupIdle

\* cookies.ts lines 78-95: the call, up to the first query
FetchCall ==
    /\ UNCHANGED <<restoreVars, codecVars, domainVars, popupVars>>
    /\ fpc = "idle"
    /\ IF ~isExtension
       THEN /\ fpc' = "done"
            /\ fetched' = Some(<<MockCookie>>)
       ELSE /\ fpc' = "awaitUnpartitioned"
            /\ fetched' = fetched
    /\ UNCHANGED <<unpartitioned, partitionedQuery, partitioned>>

\* cookies.ts lines 95-103: browser.cookies.getAll({}) settles; a rejection
\* is not caught
UnpartitionedSettles ==
    /\ UNCHANGED <<restoreVars, codecVars, domainVars, popupVars>>
    /\ fpc = "awaitUnpartitioned"
    /\ \/ \E answer \in QueryAnswers :
             /\ unpartitioned' = answer
             /\ fpc' = "awaitPartitioned"
       \/ /\ fpc' = "rejected"
          /\ UNCHANGED unpartitioned
    /\ UNCHANGED <<partitionedQuery, partitioned, fetched>>

\* cookies.ts lines 100-123: browser.cookies.getAll({ partitionKey: {} })
\* settles, a rejection leaves partitioned empty; then merge and return
PartitionedSettles ==
    /\ UNCHANGED <<restoreVars, codecVars, domainVars, popupVars>>
    /\ fpc = "awaitPartitioned"
    /\ \/ \E answer \in QueryAnswers :
             /\ partitionedQuery' = "resolved"
             /\ partitioned' = answer
       \/ /\ partitionedQuery' = "rejected"
          /\ partitioned' = <<>>
    /\ fetched' = Some(Deduplicate(unpartitioned, partitioned'))
    /\ fpc' = "done"
    /\ UNCHANGED unpartitioned

NextFetch ==
    \/ FetchCall
    \/ UnpartitionedSettles
    \/ PartitionedSettles

SpecFetch == InitFetch /\ [][NextFetch]_vars

(***************************************************************************)
(* The popup (App).  A step is one event handler up to its first await, or *)
(* the continuation of a handler after its promise settled.  message,      *)
(* progress, showWarnings and searchQuery are display state that no        *)
(* handler and no disabled attribute reads; a DomainGroup is its selected  *)
(* flag, and every group holds at least one cookie.                        *)
(***************************************************************************)
\* the numbers of groups a fetched or decrypted cookie list can fall into
GroupCounts == {0, 1, 2}

\* part_006 line 62: domainGroups.filter((g) => g.selected).length
selectedCount == Cardinality({ k \in DOMAIN domainGroups : domainGroups[k] })

\* the calls that have not settled, over all operations
RECURSIVE PendingOf(_)
PendingOf(ops) ==
    IF ops = {} THEN 0
    ELSE LET op == CHOOSE o \in ops : TRUE
         IN pending[op] + PendingOf(ops \ {op})

Started(op) == [pending EXCEPT ![op] = @ + 1]
Settled(op) == [pending EXCEPT ![op] = @ - 1]

\* a further call can be started within the bound
MayStart == PendingOf(Operations) < MaxInFlight

\* part_006 lines 234-243: resetState
resetState ==
    /\ popupStatus' = "idle"
    /\ restoreDetails' = "empty"
    /\ domainGroups' = <<>>
    /\ backupStep' = "password"
    /\ restoreStep' = "file"

\* part_006 lines 274-295: a tab button is clicked; the buttons are never
\* disabled
ClickTab ==
    /\ UNCHANGED <<restoreVars, codecVars, domainVars, fetchVars>>
    /\ \E tab \in {"backup", "restore"} : activeTab' = tab
    /\ resetState
    /\ UNCHANGED <<popupPassword, confirmMatches, chosenFile, pending>>

\* part_006 lines 312, 327, 428, 444: a password field is edited or a file
\* is chosen on the form that is shown
EditForm ==
    /\ UNCHANGED <<restoreVars, codecVars, domainVars, fetchVars>>
    /\ \/ /\ activeTab = "backup" /\ backupStep = "password"
          /\ popupPassword' \in BOOLEAN
          /\ confirmMatches' \in BOOLEAN
          /\ UNCHANGED chosenFile
       \/ /\ activeTab = "restore" /\ restoreStep = "file"
          /\ popupPassword' \in BOOLEAN
          /\ confirmMatches' \in BOOLEAN
          /\ chosenFile' \in BOOLEAN
    /\ UNCHANGED <<activeTab, popupStatus, backupStep, restoreStep,
                   domainGroups, restoreDetails, pending>>

\* part_006 lines 67-79, 369-387, 483-501: toggleDomain, selectAll,
\* deselectAll on the preview that is shown
EditSelection ==
    /\ UNCHANGED <<restoreVars, codecVars, domainVars, fetchVars>>
    /\ \/ activeTab = "backup" /\ backupStep = "preview"
       \/ activeTab = "restore" /\ restoreStep = "preview"
    /\ \/ \E k \in DOMAIN domainGroups :
             domainGroups' = [domainGroups EXCEPT ![k] = ~@]
       \/ domainGroups' = [k \in DOMAIN domainGroups |-> TRUE]
       \/ domainGroups' = [k \in DOMAIN domainGroups |-> FALSE]
    /\ UNCHANGED <<activeTab, popupStatus, backupStep, restoreStep,
                   popupPassword, confirmMatches, chosenFile,
                   restoreDetails, pending>>

\* part_006 lines 344, 458: Back on a preview
ClickBack ==
    /\ UNCHANGED <<restoreVars, codecVars, domainVars, fetchVars>>
    /\ \/ /\ activeTab = "backup" /\ backupStep = "preview"
          /\ backupStep' = "password"
          /\ UNCHANGED restoreStep
       \/ /\ activeTab = "restore" /\ restoreStep = "preview"
          /\ restoreStep' = "file"
          /\ UNCHANGED backupStep
    /\ UNCHANGED <<activeTab, popupStatus, popupPassword, confirmMatches,
                   chosenFile, domainGroups, restoreDetails, pending>>

\* part_006 lines 81-99, 335: the backup form is submitted
SubmitBackupPreview ==
    /\ UNCHANGED <<restoreVars, codecVars, domainVars, fetchVars>>
    /\ activeTab = "backup" /\ backupStep = "password"
    /\ popupStatus # "loading"
    /\ IF ~popupPassword \/ ~confirmMatches
       THEN /\ popupStatus' = "error"
            /\ UNCHANGED pending
       ELSE /\ MayStart
            /\ popupStatus' = "loading"
            /\ pending' = Started("getAllCookies")
    /\ UNCHANGED <<activeTab, backupStep, restoreStep, popupPassword,
                   confirmMatches, chosenFile, domainGroups, restoreDetails>>

\* part_006 lines 99-110: getAllCookies settled
BackupPreviewSettles ==
    /\ UNCHANGED <<restoreVars, codecVars, domainVars, fetchVars>>
    /\ pending["getAllCookies"] > 0
    /\ pending' = Settled("getAllCookies")
    /\ \/ \E n \in GroupCounts :
             /\ domainGroups' = [k \in 1..n |-> TRUE]
             /\ popupStatus' = "idle"
             /\ backupStep' = "preview"
       \/ /\ popupStatus' = "error"
          /\ UNCHANGED <<domainGroups, backupStep>>
    /\ UNCHANGED <<activeTab, restoreStep, popupPassword, confirmMatches,
                   chosenFile, restoreDetails>>

\* part_006 lines 113-127, 403-408: Backup is confirmed
ClickBackupConfirm ==
    /\ UNCHANGED <<restoreVars, codecVars, domainVars, fetchVars>>
    /\ activeTab = "backup" /\ backupStep = "preview"
    /\ popupStatus # "loading" /\ selectedCount # 0
    /\ MayStart
    /\ popupStatus' = "loading"
    /\ pending' = Started("encryptData")
    /\ UNCHANGED <<activeTab, backupStep, restoreStep, popupPassword,
                   confirmMatches, chosenFile, domainGroups, restoreDetails>>

\* part_006 lines 127-158: encryptData and the download settled
BackupSettles ==
    /\ UNCHANGED <<restoreVars, codecVars, domainVars, fetchVars>>
    /\ pending["encryptData"] > 0
    /\ pending' = Settled("encryptData")
    /\ \/ /\ popupStatus' = "success"
          /\ popupPassword' = FALSE
          /\ confirmMatches' = TRUE
          /\ backupStep' = "password"
          /\ domainGroups' = <<>>
       \/ /\ popupStatus' = "error"
          /\ UNCHANGED <<popupPassword, confirmMatches, backupStep,
                         domainGroups>>
    /\ UNCHANGED <<activeTab, restoreStep, chosenFile, restoreDetails>>

\* part_006 lines 161-173, 449: the restore form is submitted
SubmitRestorePreview ==
    /\ UNCHANGED <<restoreVars, codecVars, domainVars, fetchVars>>
    /\ activeTab = "restore" /\ restoreStep = "file"
    /\ popupStatus # "loading"
    /\ IF ~popupPassword \/ ~chosenFile
       THEN /\ popupStatus' = "error"
            /\ UNCHANGED pending
       ELSE /\ MayStart
            /\ popupStatus' = "loading"
            /\ pending' = Started("decryptData")
    /\ UNCHANGED <<activeTab, backupStep, restoreStep, popupPassword,
                   confirmMatches, chosenFile, domainGroups, restoreDetails>>

\* part_006 lines 172-186: file.text() and decryptData settled
RestorePreviewSettles ==
    /\ UNCHANGED <<restoreVars, codecVars, domainVars, fetchVars>>
    /\ pending["decryptData"] > 0
    /\ pending' = Settled("decryptData")
    /\ \/ \E n \in GroupCounts :
             /\ domainGroups' = [k \in 1..n |-> TRUE]
             /\ popupStatus' = "idle"
             /\ restoreStep' = "preview"
       \/ /\ popupStatus' = "error"
          /\ UNCHANGED <<domainGroups, restoreStep>>
    /\ UNCHANGED <<activeTab, backupStep, popupPassword, confirmMatches,
                   chosenFile, restoreDetails>>

\* part_006 lines 517-524: disabled={status === 'loading' || selectedCount === 0}
RestoreConfirmEnabled == popupStatus # "loading" /\ selectedCount # 0

\* part_006 lines 189-205: Restore is confirmed
ClickRestoreConfirm ==
    /\ UNCHANGED <<restoreVars, codecVars, domainVars, fetchVars>>
    /\ activeTab = "restore" /\ restoreStep = "preview"
    /\ RestoreConfirmEnabled
    /\ MayStart
    /\ popupStatus' = "loading"
    /\ restoreDetails' = "empty"
    /\ pending' = Started("restoreCookies")
    /\ UNCHANGED <<activeTab, backupStep, restoreStep, popupPassword,
                   confirmMatches, chosenFile, domainGroups>>

\* part_006 lines 205-231: restoreCookies settled
RestoreSettles ==
    /\ UNCHANGED <<restoreVars, codecVars, domainVars, fetchVars>>
    /\ pending["restoreCookies"] > 0
    /\ pending' = Settled("restoreCookies")
    /\ \/ /\ restoreDetails' = "set"
          /\ popupStatus' = "success"
          /\ popupPassword' = FALSE
          /\ confirmMatches' \in BOOLEAN
          /\ restoreStep' = "file"
          /\ domainGroups' = <<>>
          /\ chosenFile' = FALSE
       \/ /\ popupStatus' = "error"
          /\ UNCHANGED <<restoreDetails, popupPassword, confirmMatches,
                         restoreStep, domainGroups, chosenFile>>
    /\ UNCHANGED <<activeTab, backupStep>>

InitPopup == RestoreIdle /\ CodecIdle /\ DomainsIdle /\ FetchIdle /\ PopupIdle

NextPopup ==
    \/ ClickTab
    \/ EditForm
    \/ EditSelection
    \/ ClickBack
    \/ SubmitBackupPreview
    \/ BackupPreviewSettles
    \/ ClickBackupConfirm
    \/ BackupSettles
    \/ SubmitRestorePreview
    \/ RestorePreviewSettles
    \/ ClickRestoreConfirm
    \/ RestoreSettles

SpecPopup == InitPopup /\ [][NextPopup]_vars

(***************************************************************************)
(* restoreCookies called a second time with the same list, against a store *)
(* that gives each record's primary attempt and retry the answer it gave   *)
(* before.  The clock keeps running between the two calls.                 *)
(***************************************************************************)
RerunAnswers == {Fulfilled, [kind |-> "Error", message |-> "Failed"]}

RerunCookies == { c \in Cookie : c.name = "sid" }

RerunLists == UNION { [1..n -> RerunCookies] : n \in 0..MaxCookies }

Stores(n) == [1..n -> [primary : RerunAnswers, retry : RerunAnswers]]

InitRerun ==
    /\ cookies \in RerunLists
    /\ isExtension = TRUE
    /\ onProgress = "none"
    /\ pc = "idle"
    /\ i = 0
    /\ success = 0 /\ failed = 0 /\ skipped = 0
    /\ details = <<>>
    /\ setDetails = EmptyDraft
    /\ primaryRes = NotSettled
    /\ retryRes = NotSettled
    /\ setCalls = <<>>
    /\ progressCalls = <<>>
    /\ now = FirstReading
    /\ result = None
    /\ \E f \in Stores(Len(cookies)) : store = Some(f)
    /\ earlier = None
    /\ CodecIdle
    /\ DomainsIdle /\ FetchIdle /\ PopupIdle

\* mutant: the counters live on between calls
LocalsKept ==
    /\ i' = 0
    /\ details' = <<>>
    /\ UNCHANGED <<success, failed, skipped>>

\* cookies.ts lines 130, 146-151: details, the counters and the loop index
\* are locals of the call, created anew each time
LocalsFresh ==
    /\ i' = 0
    /\ details' = <<>>
    /\ success' = 0 /\ failed' = 0 /\ skipped' = 0

\* the caller keeps what the resolved call did and calls restoreCookies again
Rerun ==
    /\ UNCHANGED <<codecVars, domainVars, fetchVars, popupVars>>
    /\ pc = "done"
    /\ earlier = None
    /\ earlier' = Some([calls |-> setCalls, summary |-> result[1]])
    /\ pc' = "idle"
    /\ LocalsFresh
    /\ setCalls' = <<>>
    /\ progressCalls' = <<>>
    /\ result' = None
    /\ UNCHANGED <<cookies, isExtension, onProgress, store, setDetails,
                   primaryRes, retryRes, now>>

NextRerun ==
    \/ Call
    \/ LoopStep
    \/ PrimarySettles
    \/ RetrySettles
    \/ Return
    \/ Rerun

SpecRerun == InitRerun /\ [][NextRerun]_vars

(***************************************************************************)
(* restoreCookies in an extension, run to its end: the loop takes its next *)
(* step whenever it can, and every browser.cookies.set promise settles.    *)
(***************************************************************************)
InitSettling ==
    /\ cookies \in RerunLists
    /\ isExtension = TRUE
    /\ onProgress \in {"none", "given"}
    /\ pc = "idle"
    /\ i = 0
    /\ success = 0 /\ failed = 0 /\ skipped = 0
    /\ details = <<>>
    /\ setDetails = EmptyDraft
    /\ primaryRes = NotSettled
    /\ retryRes = NotSettled
    /\ setCalls = <<>>
    /\ progressCalls = <<>>
    /\ now = FirstReading
    /\ result = None
    /\ store = None
    /\ earlier = None
    /\ CodecIdle
    /\ DomainsIdle /\ FetchIdle /\ PopupIdle

NextSettling ==
    \/ Call
    \/ LoopStep
    \/ PrimarySettles
    \/ RetrySettles
    \/ Return

SpecSettling ==
    /\ InitSettling
    /\ [][NextSettling]_vars
    /\ WF_vars(Call) /\ WF_vars(LoopStep) /\ WF_vars(Return)
    /\ WF_vars(PrimarySettles) /\ WF_vars(RetrySettles)

(***************************************************************************)
(* Properties of restoreCookies.                                           *)
(***************************************************************************)
\* number of outcomes of a list that hold a status
CountStatus(list, status) ==
    Cardinality({ k \in DOMAIN list : list[k].status = status })

\* number of store-set calls issued for the record at 0-based index idx
CallsFor(idx) ==
    Cardinality({ n \in DOMAIN setCalls : setCalls[n].idx = idx })

\* the requests issued for the record at 0-based index idx, in order
RequestsFor(idx) ==
    SelectSeq(setCalls, LAMBDA c : c.idx = idx)

\* an outcome has just been recorded from a store call of this iteration
JustAttempted ==
    /\ pc \in {"loop", "rejected"}
    /\ primaryRes # NotSettled
    /\ Len(details) > 0

LastDetail == details[Len(details)]
LastCookie == cookies[Len(details)]

\* C1: the resolved summary holds exactly one outcome per input record, in
\* input order (details[k] carries the name and domain of cookies[k]), and
\* each count is the number of outcomes with that status, so that
\* success + failed + skipped = N.
C1_SummaryExact ==
    pc = "done" =>
        LET r == result[1] IN
        /\ Len(r.details) = Len(cookies)
        /\ \A k \in 1..Len(cookies) :
              /\ r.details[k].name = cookies[k].name
              /\ r.details[k].domain = cookies[k].domain
        /\ r.success = CountStatus(r.details, "success")
        /\ r.failed = CountStatus(r.details, "failed")
        /\ r.skipped = CountStatus(r.details, "skipped")
        /\ r.success + r.failed + r.skipped = Len(cookies)

C1_Witness ==
    /\ pc = "done"
    /\ isExtension
    /\ Len(cookies) = 2
    /\ cookies[1].domain # cookies[2].domain
    /\ result[1].skipped = 1
    /\ result[1].failed = 1

\* C2: a record with no session flag whose expirationDate is strictly less
\* than the current time (already at the first clock reading, whatever its
\* value) is recorded as skipped with reason 'Cookie has expired', and the
\* store's set is never invoked for it.
C2_ExpiredAlwaysSkipped ==
    \A k \in 1..Len(cookies) :
        ( /\ isExtension
          /\ ~TruthyFlag(cookies[k].session)
          /\ cookies[k].expirationDate # None
          /\ cookies[k].expirationDate[1] < FirstReading )
        => /\ CallsFor(k - 1) = 0
           /\ k <= Len(details) =>
                 /\ details[k].status = "skipped"
                 /\ details[k].reason = Some("Cookie has expired")

\* C3: when the primary call for an insecure record fails and the retried
\* call succeeds, the outcome is success / 'Upgraded to HTTPS', success is
\* incremented by exactly one, failed is not incremented, and the store's set
\* was called exactly twice for the record, the second time with secure
\* forced true and an https URL.
C3_RetrySuccess ==
    [][ ( /\ pc = "awaitRetry"
          /\ ~cookies[i + 1].secure
          /\ primaryRes \in Rejections
          /\ retryRes' = Fulfilled )
        => /\ details' = Append(details,
                  [name |-> cookies[i + 1].name, domain |-> cookies[i + 1].domain,
                   status |-> "success", reason |-> Some("Upgraded to HTTPS")])
           /\ success' = success + 1
           /\ failed' = failed
           /\ skipped' = skipped
           /\ setCalls' = setCalls
           /\ CallsFor(i) = 2
           /\ RequestsFor(i)[1].req.secure = FALSE
           /\ RequestsFor(i)[2].req.secure = TRUE
           /\ RequestsFor(i)[2].req.url[2] = "s"
      ]_vars

C3_Witness ==
    /\ JustAttempted
    /\ primaryRes \in Rejections
    /\ retryRes = Fulfilled
    /\ LastDetail.reason = Some("Upgraded to HTTPS")
    /\ success = 1

\* C4: a secure record is never retried: the store's set is invoked at most
\* once for it, exactly once when it is attempted (not skipped as expired),
\* and if that call fails the outcome is failed with the store error's
\* message as reason.
C4_SecureNeverRetried ==
    /\ \A k \in 1..Len(cookies) :
          cookies[k].secure =>
              /\ CallsFor(k - 1) <= 1
              /\ (k <= Len(details) /\ details[k].status # "skipped")
                    => CallsFor(k - 1) = 1
    /\ (JustAttempted /\ LastCookie.secure /\ primaryRes \in Rejections)
          => /\ LastDetail.status = "failed"
             /\ retryRes = NotSettled
             /\ primaryRes.kind = "Error"
                   => LastDetail.reason = Some(primaryRes.message)

C4_Witness ==
    /\ JustAttempted
    /\ LastCookie.secure
    /\ primaryRes = [kind |-> "Error", message |-> "Permission denied"]
    /\ LastDetail.status = "failed"
    /\ CallsFor(Len(details) - 1) = 1

\* C5: when the primary and the retried call for an insecure record both
\* fail, the outcome is failed with the (retry's) store error's message as
\* reason, failed is incremented by exactly one and success is not.
C5_RetryFailure ==
    [][ ( /\ pc = "awaitRetry"
          /\ ~cookies[i + 1].secure
          /\ primaryRes \in Rejections
          /\ retryRes' \in Rejections )
        => /\ Len(details') = Len(details) + 1
           /\ SubSeq(details', 1, Len(details)) = details
           /\ details'[Len(details')].name = cookies[i + 1].name
           /\ details'[Len(details')].domain = cookies[i + 1].domain
           /\ details'[Len(details')].status = "failed"
           /\ retryRes'.kind = "Error"
                 => details'[Len(details')].reason = Some(retryRes'.message)
           /\ failed' = failed + 1
           /\ success' = success
           /\ skipped' = skipped
      ]_vars

C5_Witness ==
    /\ JustAttempted
    /\ ~LastCookie.secure
    /\ primaryRes = [kind |-> "Error", message |-> "Failed"]
    /\ retryRes = [kind |-> "Error", message |-> "Permission denied"]
    /\ LastDetail.status = "failed"
    /\ LastDetail.reason = Some("Permission denied")
    /\ failed = 1

\* C6: in an extension environment with a progress callback, one call
\* (k, N) is made right after the k-th outcome is recorded, whatever that
\* outcome is, so a restore that resolves has made exactly the N calls
\* (1, N), ..., (N, N) in this order.
C6_ProgressCalls ==
    (isExtension /\ onProgress = "given") =>
        /\ Len(progressCalls) = Len(details)
        /\ \A k \in 1..Len(progressCalls) :
              progressCalls[k] = <<k, Len(cookies)>>
        /\ pc = "done" => Len(progressCalls) = Len(cookies)

C6_Witness ==
    /\ pc = "done"
    /\ isExtension
    /\ onProgress = "given"
    /\ progressCalls = << <<1, 2>>, <<2, 2>> >>
    /\ details[1].status = "skipped"
    /\ details[2].status = "failed"

\* C7: a store-set failure never aborts the restore: the call is rejected
\* only by a throwing progress callback, never by a store failure; while it
\* is neither resolved nor rejected it can always take a step; and when it
\* resolves every record, also those after a failed one, has an outcome.
C7_FailureIsLocal ==
    /\ pc = "rejected" => (onProgress = "given" /\ Len(progressCalls) > 0)
    /\ pc \notin {"done", "rejected"} => ENABLED Next
    /\ (pc = "done" /\ isExtension) =>
          /\ Len(details) = Len(cookies)
          /\ \A k \in 1..Len(cookies) :
                details[k].status \in {"skipped", "success", "failed"}
    /\ pc = "loop" => i = Len(details)

C7_Witness ==
    /\ pc = "done"
    /\ isExtension
    /\ Len(cookies) = 2
    /\ details[1].status = "failed"
    /\ details[2].status = "success"
    /\ onProgress = "none"

(***************************************************************************)
(* The backup codec.  Text is a sequence of characters; "U+E9" is a        *)
(* character whose UTF-8 encoding takes two bytes, "U+FFFD" the            *)
(* replacement character a TextDecoder emits for malformed input.          *)
(***************************************************************************)
Quote == "\""
Backslash == "\\"

\* the strings a record's field can hold
Strings == { <<>>, <<"a">>, <<"U+E9">>, <<Quote>>, <<Backslash>>,
             <<"a", "U+E9">> }

\* the records of a list given to encryptData
Records == [n : Strings]

Passwords == {"correct horse", "hunter2"}

\* crypto.getRandomValues: the values a fresh salt and a fresh IV can take
Salts == {"salt1", "salt2"}
IVs == {"iv1", "iv2"}

RECURSIVE Flatten(_)
\* the concatenation of a sequence of sequences
Flatten(seqs) ==
    IF seqs = <<>> THEN <<>> ELSE Head(seqs) \o Flatten(Tail(seqs))

\* JSON.stringify of one character inside a string
EscapeChar(c) ==
    IF c = Quote THEN <<Backslash, Quote>>
    ELSE IF c = Backslash THEN <<Backslash, Backslash>>
    ELSE <<c>>

\* JSON.stringify of a string
QuoteString(str) ==
    <<Quote>> \o Flatten([k \in 1..Len(str) |-> EscapeChar(str[k])]) \o <<Quote>>

\* JSON.stringify of a record {"n": ...}
StringifyRecord(rec) ==
    <<"{", Quote, "n", Quote, ":">> \o QuoteString(rec.n) \o <<"}">>

\* JSON.stringify of a record list
JSONStringify(list) ==
    <<"[">>
    \o Flatten([k \in 1..Len(list) |->
                   (IF k > 1 THEN <<",">> ELSE <<>>) \o StringifyRecord(list[k])])
    \o <<"]">>

SyntaxError == [ok |-> FALSE]

RECURSIVE ParseStringBody(_, _, _)
\* JSON.parse inside a string: t[p] is the first character after the opening
\* quote, acc the characters read so far
ParseStringBody(t, p, acc) ==
    IF p > Len(t) THEN SyntaxError
    ELSE IF t[p] = Quote THEN [ok |-> TRUE, value |-> acc, next |-> p + 1]
    ELSE IF t[p] = Backslash
    THEN IF p + 1 > Len(t) THEN SyntaxError
         ELSE IF t[p + 1] \in {Quote, Backslash}
         THEN ParseStringBody(t, p + 2, Append(acc, t[p + 1]))
         ELSE IF t[p + 1] = "n"
         THEN ParseStringBody(t, p + 2, Append(acc, "U+000A"))
         ELSE SyntaxError
    ELSE IF t[p] = "U+0000" THEN SyntaxError
    ELSE ParseStringBody(t, p + 1, Append(acc, t[p]))

\* whether t holds the characters of lit from position p on
Holds(t, p, lit) ==
    /\ p + Len(lit) - 1 <= Len(t)
    /\ \A k \in 1..Len(lit) : t[p + k - 1] = lit[k]

\* JSON.parse of a record {"n": "..."} starting at t[p]
ParseRecord(t, p) ==
    IF ~Holds(t, p, <<"{", Quote, "n", Quote, ":", Quote>>) THEN SyntaxError
    ELSE LET str == ParseStringBody(t, p + 6, <<>>) IN
         IF ~str.ok THEN SyntaxError
         ELSE IF ~Holds(t, str.next, <<"}">>) THEN SyntaxError
         ELSE [ok |-> TRUE, value |-> [n |-> str.value], next |-> str.next + 1]

RECURSIVE ParseElements(_, _, _)
\* JSON.parse of the elements of an array: t[p] starts an element
ParseElements(t, p, acc) ==
    LET rec == ParseRecord(t, p) IN
    IF ~rec.ok THEN SyntaxError
    ELSE IF Holds(t, rec.next, <<"]">>) /\ rec.next = Len(t)
    THEN [ok |-> TRUE, value |-> Append(acc, rec.value)]
    ELSE IF Holds(t, rec.next, <<",">>)
    THEN ParseElements(t, rec.next + 1, Append(acc, rec.value))
    ELSE SyntaxError

\* JSON.parse of a text holding a record list
JSONParse(t) ==
    IF t = <<"[", "]">> THEN [ok |-> TRUE, value |-> <<>>]
    ELSE IF Holds(t, 1, <<"[">>) THEN ParseElements(t, 2, <<>>)
    ELSE SyntaxError

\* the UTF-8 bytes of one character
CharBytes(c) ==
    CASE c = "[" -> <<91>>
      [] c = "]" -> <<93>>
      [] c = "{" -> <<123>>
      [] c = "}" -> <<125>>
      [] c = ":" -> <<58>>
      [] c = "," -> <<44>>
      [] c = Quote -> <<34>>
      [] c = Backslash -> <<92>>
      [] c = "n" -> <<110>>
      [] c = "a" -> <<97>>
      [] c = "U+000A" -> <<10>>
      [] c = "U+0000" -> <<0>>
      [] c = "U+E9" -> <<195, 169>>
      [] c = "U+FFFD" -> <<239, 191, 189>>

\* TextEncoder.encode
UTF8Encode(text) == Flatten([k \in 1..Len(text) |-> CharBytes(text[k])])

\* the character a TextDecoder reads at the head of bytes, and the number
\* of bytes it takes; a malformed sequence gives U+FFFD for one byte
DecodeHead(bytes) ==
    LET b == bytes[1] IN
    CASE b = 91 -> <<"[", 1>>
      [] b = 93 -> <<"]", 1>>
      [] b = 123 -> <<"{", 1>>
      [] b = 125 -> <<"}", 1>>
      [] b = 58 -> <<":", 1>>
      [] b = 44 -> <<",", 1>>
      [] b = 34 -> <<Quote, 1>>
      [] b = 92 -> <<Backslash, 1>>
      [] b = 110 -> <<"n", 1>>
      [] b = 97 -> <<"a", 1>>
      [] b = 10 -> <<"U+000A", 1>>
      [] b = 0 -> <<"U+0000", 1>>
      [] b = 195 /\ Len(bytes) >= 2 /\ bytes[2] = 169 -> <<"U+E9", 2>>
      [] b = 239 /\ Len(bytes) >= 3 /\ bytes[2] = 191 /\ bytes[3] = 189
            -> <<"U+FFFD", 3>>
      [] OTHER -> <<"U+FFFD", 1>>

RECURSIVE UTF8Decode(_)
\* TextDecoder.decode (not fatal)
UTF8Decode(bytes) ==
    IF bytes = <<>> THEN <<>>
    ELSE LET head == DecodeHead(bytes) IN
         <<head[1]>> \o UTF8Decode(SubSeq(bytes, head[2] + 1, Len(bytes)))

\* a list of three equal records whose serialization repeats with the period
\* of the chunk size: "{...}," takes chunkSize bytes, so its second and third
\* chunk hold the same bytes
RepeatingList ==
    [k \in 1..3 |->
        [n |-> CHOOSE s \in Strings :
                  Len(UTF8Encode(QuoteString(s))) + 7 = chunkSize]]

\* the JSON-serializable record lists given to encryptData
\* the records of the lists of three and more: one plain, one two-byte and
\* one escaped field value
LongListRecords == { r \in Records : r.n \in {<<"a">>, <<"U+E9">>, <<Quote>>} }

RecordLists ==
    UNION { [1..k -> Records] : k \in {m \in 0..2 : m <= MaxRecords} }
      \cup UNION { [1..k -> LongListRecords] : k \in 3..MaxRecords }
      \cup {RepeatingList}

(***************************************************************************)
(* Cryptographic primitives, idealized: PBKDF2 and SHA-256 are injective,  *)
(* and an AES-GCM ciphertext opens only under the key and IV that made it. *)
(***************************************************************************)
\* mutant: the derived key depends on the salt alone
DeriveKeyIgnoresPassword(pw, salt) == [pw |-> "", salt |-> salt]

\* crypto.subtle.importKey + deriveKey (PBKDF2, 100000 iterations, SHA-256)
DeriveKey(pw, salt) == [pw |-> pw, salt |-> salt]

\* crypto.subtle.encrypt (AES-GCM): ciphertext and tag
AesGcmEncrypt(key, iv, bytes) == [key |-> key, iv |-> iv, plain |-> bytes]

\* crypto.subtle.decrypt (AES-GCM): the plaintext, or an OperationError
AesGcmDecrypt(key, iv, ct) ==
    IF ct.key = key /\ ct.iv = iv
    THEN [ok |-> TRUE, plain |-> ct.plain]
    ELSE [ok |-> FALSE]

\* password.ts line 55: generateChecksum, the hex SHA-256 of the UTF-8 text
generateChecksum(text) == <<"sha256">> \o UTF8Encode(text)

\* password.ts line 66: verifyChecksum
verifyChecksum(text, expectedHash) == generateChecksum(text) = expectedHash

\* the fields a backup file's JSON object can have; None is a missing field
Container(version, salt, iv, bytes, checksum, chunks, size, totalBytes) ==
    [kind |-> "object",
     version |-> version, salt |-> salt, iv |-> iv, data |-> bytes,
     checksum |-> checksum, chunks |-> chunks, chunkSize |-> size,
     totalSize |-> totalBytes,
     \* Array.isArray(json.chunks)
     chunksIsArray |-> chunks # None,
     \* fields of the legacy (SJCL) format
     v |-> None, iter |-> None, mode |-> None, ct |-> None]

\* mutant: the last call of a range is left out
ProgressRangeShort(first, last, steps) ==
    [k \in 1..(last - first) |-> <<first + k - 1, steps>>]

\* the onProgress calls (first, steps), (first + 1, steps), ..., (last, steps)
ProgressRange(first, last, steps) ==
    [k \in 1..(last - first + 1) |-> <<first + k - 1, steps>>]

\* part_004 lines 51-116: encryptSinglePass
encryptSinglePass(rawData, pw, salt, iv) ==
    [file |-> Container(Some("v3"), Some(salt), Some(iv),
                  Some(AesGcmEncrypt(DeriveKey(pw, salt), iv, UTF8Encode(rawData))),
                  Some(generateChecksum(rawData)), None, None, None),
     progress |-> ProgressRange(0, 3, 3),
     calls |-> <<"encryptSinglePass", "getRandomValues(16)",
                 "getRandomValues(12)", "deriveKey", "encrypt">>]

\* mutant: the number of chunks is rounded down
NumChunksFloor(totalBytes, size) == totalBytes \div size

\* Math.ceil(totalBytes / chunkSize)
NumChunks(totalBytes, size) == (totalBytes + size - 1) \div size

\* mutant: every slice starts at the first byte
ChunkSliceFromStart(dataBytes, k, size) ==
    SubSeq(dataBytes, 1,
           IF k * size + size < Len(dataBytes) THEN k * size + size
           ELSE Len(dataBytes))

\* mutant: the slice of a chunk stops one byte early
ChunkSliceShort(dataBytes, k, size) ==
    SubSeq(dataBytes, k * size + 1,
           (IF k * size + size < Len(dataBytes) THEN k * size + size
            ELSE Len(dataBytes)) - 1)

\* part_004 lines 168-170: dataBytes.slice(start, end) of chunk k (0-based)
ChunkSlice(dataBytes, k, size) ==
    SubSeq(dataBytes, k * size + 1,
           IF k * size + size < Len(dataBytes) THEN k * size + size
           ELSE Len(dataBytes))

\* mutant: the key is derived again for every chunk
ChunkedCallsKeyPerChunk(numChunks) ==
    <<"encryptChunked", "getRandomValues(16)">>
        \o Flatten([k \in 1..numChunks |->
                       <<"deriveKey", "getRandomValues(12)", "encrypt">>])

\* part_004 lines 138-182: the crypto calls of encryptChunked, in order: the
\* salt, the key, then a 12-byte IV and an encrypt for each chunk
ChunkedCalls(numChunks) ==
    <<"encryptChunked", "getRandomValues(16)", "deriveKey">>
        \o Flatten([k \in 1..numChunks |->
                       <<"getRandomValues(12)", "encrypt">>])

\* part_004 lines 121-208: encryptChunked; ivs[k] is the IV drawn for chunk k
encryptChunked(rawData, dataBytes, pw, size, salt, ivs) ==
    LET numChunks == NumChunks(Len(dataBytes), size)
        progressSteps == numChunks + 1
        key == DeriveKey(pw, salt)
        encryptedChunks ==
            [k \in 1..numChunks |->
                [iv |-> ivs[k],
                 data |-> AesGcmEncrypt(key, ivs[k],
                                        ChunkSlice(dataBytes, k - 1, size))]]
    IN [file |-> Container(Some("v4"), Some(salt), None, None,
                     Some(generateChecksum(rawData)), Some(encryptedChunks),
                     Some(size), Some(Len(dataBytes))),
        progress |-> ProgressRange(0, progressSteps, progressSteps)
                     \o <<<<progressSteps, progressSteps>>>>,
        calls |-> ChunkedCalls(numChunks)]

\* mutant: a plaintext of exactly the chunk size is encoded in chunks
FitsSinglePassStrict(length, size) == length < size

\* part_004 line 40: dataBytes.length <= chunkSize
FitsSinglePass(length, size) == length <= size

\* part_004 lines 29-46: encryptData
encryptData(value, pw, salt, ivs) ==
    LET rawData == JSONStringify(value)
        dataBytes == UTF8Encode(rawData)
    IN IF FitsSinglePass(Len(dataBytes), chunkSize)
       THEN encryptSinglePass(rawData, pw, salt, ivs[1])
       ELSE encryptChunked(rawData, dataBytes, pw, chunkSize, salt, ivs)

\* src/src/utils/crypto.ts lines 26-76: the encryptData that wrote v2 files
encryptDataV2(value, pw, salt, iv) ==
    [file |-> Container(Some("v2"), Some(salt), Some(iv),
                  Some(AesGcmEncrypt(DeriveKey(pw, salt), iv,
                                     UTF8Encode(JSONStringify(value)))),
                  None, None, None, None),
     progress |-> <<>>]

\* the number of IVs an encode of value draws
IVsNeeded(value) ==
    LET n == Len(UTF8Encode(JSONStringify(value))) IN
    IF n <= chunkSize THEN 1 ELSE NumChunks(n, chunkSize)

(***************************************************************************)
(* decryptData.  A call ends by returning a value or by throwing an Error. *)
(***************************************************************************)
Returned(value) == [kind |-> "returned", value |-> value]
Threw(message) == [kind |-> "threw", message |-> message]

AuthenticationMessage == "Incorrect password or corrupted file"
IntegrityMessage == "Backup file corrupted (checksum mismatch)"
UnknownFormatMessage == "Unknown file format"

\* err.message.includes('checksum'), for the messages that can be thrown in
\* the try blocks of the decoders
IncludesChecksum(message) == message = IntegrityMessage

\* mutant: the catch block turns every error into the authentication error
CatchDecryptErrorConflates(message) == Threw(AuthenticationMessage)

\* part_004 lines 313-318 and 411-416: the catch block of the decoders
CatchDecryptError(message) ==
    IF IncludesChecksum(message) THEN Threw(message)
    ELSE Threw(AuthenticationMessage)

\* mutant: the checksum is verified for every version tag
VerifiesChecksumAnyVersion(version) == TRUE

\* part_004 line 303: json.version === 'v3'
VerifiesChecksum(version) == version = Some("v3")

\* mutant: an empty checksum field counts as a checksum
ChecksumTruthyIfPresent(checksum) == checksum # None

\* JavaScript truthiness of a checksum field: missing and '' are falsy
ChecksumTruthy(checksum) == checksum # None /\ checksum # Some(<<>>)

\* part_004 lines 299-312 and 398-410: from the decrypted bytes to the result
FinishDecode(bytes, verify, checksum, progressBefore, lastCall) ==
    LET decryptedText == UTF8Decode(bytes) IN
    IF verify /\ ChecksumTruthy(checksum)
          /\ ~verifyChecksum(decryptedText, checksum[1])
    THEN [result |-> CatchDecryptError(IntegrityMessage),
          progress |-> progressBefore]
    ELSE LET parsed == JSONParse(decryptedText) IN
         [result |-> IF parsed.ok THEN Returned(parsed.value)
                     ELSE CatchDecryptError("SyntaxError"),
          progress |-> Append(progressBefore, lastCall)]

\* the outcome of a decoder together with the calls it made: its own name,
\* then the key derivation and cipher calls in order
WithCalls(out, calls) ==
    [result |-> out.result, progress |-> out.progress, calls |-> calls]

\* part_004 lines 255-319: decryptWebCrypto
decryptWebCrypto(json, pw) ==
    LET key == DeriveKey(pw, json.salt[1])
        decrypted == AesGcmDecrypt(key, json.iv[1], json.data[1])
    IN WithCalls(
         IF ~decrypted.ok
         THEN [result |-> CatchDecryptError("OperationError"),
               progress |-> ProgressRange(0, 1, 2)]
         ELSE FinishDecode(decrypted.plain, VerifiesChecksum(json.version),
                           json.checksum, ProgressRange(0, 1, 2), <<2, 2>>),
         <<"decryptWebCrypto", "deriveKey", "decrypt">>)

\* part_004 lines 325-417: decryptChunked
decryptChunked(json, pw) ==
    LET chunks == json.chunks[1]
        numChunks == Len(chunks)
        progressSteps == numChunks + 1
        key == DeriveKey(pw, json.salt[1])
        decryptedChunks ==
            [k \in 1..numChunks |->
                AesGcmDecrypt(key, chunks[k].iv, chunks[k].data)]
        failedAt == { k \in 1..numChunks : ~decryptedChunks[k].ok }
        \* the chunks decrypted before the first failure
        done == IF failedAt = {} THEN numChunks
                ELSE (CHOOSE k \in failedAt : \A m \in failedAt : k <= m) - 1
        progressBefore == ProgressRange(0, done + 1, progressSteps)
        totalSize == IF json.totalSize = None THEN 0 ELSE json.totalSize[1]
        joined == Flatten([k \in 1..numChunks |-> decryptedChunks[k].plain])
    IN WithCalls(
         IF failedAt # {}
         THEN [result |-> CatchDecryptError("OperationError"),
               progress |-> progressBefore]
         ELSE IF Len(joined) > totalSize
         \* combined.set(chunk, offset) beyond the buffer: RangeError
         THEN [result |-> CatchDecryptError("RangeError"),
               progress |-> progressBefore]
         ELSE FinishDecode(joined \o [k \in 1..(totalSize - Len(joined)) |-> 0],
                           TRUE, json.checksum, progressBefore,
                           <<progressSteps, progressSteps>>),
         <<"decryptChunked", "deriveKey">>
            \o [k \in 1..(IF failedAt = {} THEN numChunks ELSE done + 1)
                   |-> "decrypt"])

\* what sjcl.decrypt(password, fileContent) can do: return the plaintext, or
\* throw one of the library's exceptions
SjclOutcomes ==
    { [kind |-> "plaintext", text |-> <<"[", "]">>],
      [kind |-> "exception", message |-> "json decrypt: invalid parameters"],
      [kind |-> "exception", message |-> "ccm: tag doesn't match"] }

\* a ct field whose content is not followed: SJCL may do anything with it
OpaqueCiphertext == [sealedWith |-> None, text |-> <<>>]

\* the ct field SJCL's encrypt(password, text) writes; its decrypt opens it
\* under the same password only
SjclEncrypt(pw, text) == [sealedWith |-> Some(pw), text |-> text]

\* part_004 line 423: sjcl.decrypt(password, fileContent) on the whole file
SjclDecrypt(pw, json) ==
    LET ct == json.ct[1] IN
    IF ct.sealedWith = None THEN SjclOutcomes
    ELSE IF ct.sealedWith = Some(pw)
    THEN {[kind |-> "plaintext", text |-> ct.text]}
    ELSE {[kind |-> "exception", message |-> "ccm: tag doesn't match"]}

\* part_004 lines 429-430: the message mentions 'corrupt' or 'invalid'
MentionsCorruptOrInvalid(message) ==
    message = "json decrypt: invalid parameters"

\* part_004 lines 421-436: decryptLegacy
decryptLegacy(sjcl) ==
    WithCalls(
      [result |->
          IF sjcl.kind = "plaintext" THEN Returned(JSONParse(sjcl.text).value)
          ELSE IF MentionsCorruptOrInvalid(sjcl.message)
          THEN Threw(AuthenticationMessage)
          ELSE Threw(sjcl.message),
       progress |-> <<>>],
      <<"decryptLegacy", "sjcl.decrypt">>)

\* the && chains of decryptData test truthiness; the fields of the files
\* enumerated here are missing or hold a truthy value
Has(field) == field # None

\* mutant: the legacy field set is not looked for
RouteWithoutLegacy(json) ==
    IF json.kind = "unparsable" THEN "SyntaxError"
    ELSE IF json.kind = "null" THEN "TypeError"
    ELSE IF json.kind # "object" THEN "unknown"
    ELSE IF json.version = Some("v4") /\ Has(json.salt) /\ Has(json.chunks)
            /\ json.chunksIsArray
    THEN "decryptChunked"
    ELSE IF json.version \in {Some("v2"), Some("v3")}
            /\ Has(json.salt) /\ Has(json.iv) /\ Has(json.data)
    THEN "decryptWebCrypto"
    ELSE "unknown"

\* mutant: the v4 test does not ask whether chunks is an array
RouteSkipsIsArray(json) ==
    IF json.kind = "unparsable" THEN "SyntaxError"
    ELSE IF json.kind = "null" THEN "TypeError"
    ELSE IF json.kind # "object" THEN "unknown"
    ELSE IF json.version = Some("v4") /\ Has(json.salt) /\ Has(json.chunks)
    THEN "decryptChunked"
    ELSE IF json.version \in {Some("v2"), Some("v3")}
            /\ Has(json.salt) /\ Has(json.iv) /\ Has(json.data)
    THEN "decryptWebCrypto"
    ELSE IF Has(json.iv) /\ Has(json.v) /\ Has(json.iter) /\ Has(json.mode)
            /\ Has(json.ct)
    THEN "decryptLegacy"
    ELSE "unknown"

\* part_004 lines 225-243: where decryptData goes for a file content.  A
\* property read on null throws a TypeError; on a number, a string, a
\* boolean or an array the fields read are undefined.
Route(json) ==
    IF json.kind = "unparsable" THEN "SyntaxError"
    ELSE IF json.kind = "null" THEN "TypeError"
    ELSE IF json.kind # "object" THEN "unknown"
    ELSE IF json.version = Some("v4") /\ Has(json.salt) /\ Has(json.chunks)
            /\ json.chunksIsArray
    THEN "decryptChunked"
    ELSE IF json.version \in {Some("v2"), Some("v3")}
            /\ Has(json.salt) /\ Has(json.iv) /\ Has(json.data)
    THEN "decryptWebCrypto"
    ELSE IF Has(json.iv) /\ Has(json.v) /\ Has(json.iter) /\ Has(json.mode)
            /\ Has(json.ct)
    THEN "decryptLegacy"
    ELSE "unknown"

InvalidFormatMessage == "Invalid file format"

\* part_004 lines 219-251: decryptData on the file content; sjcl is what the
\* SJCL library does if it is called
decryptData(json, pw, sjcl) ==
    LET route == Route(json) IN
    CASE route = "decryptChunked" -> decryptChunked(json, pw)
      [] route = "decryptWebCrypto" -> decryptWebCrypto(json, pw)
      [] route = "decryptLegacy" -> decryptLegacy(sjcl)
      [] route = "unknown" ->
            [result |-> Threw(UnknownFormatMessage), progress |-> <<>>,
             calls |-> <<>>]
      [] route = "SyntaxError" ->
            [result |-> Threw(InvalidFormatMessage), progress |-> <<>>,
             calls |-> <<>>]
      [] route = "TypeError" ->
            [result |-> Threw("Cannot read properties of null (reading 'version')"),
             progress |-> <<>>, calls |-> <<>>]

(***************************************************************************)
(* The codec as a state machine: a value is encoded into a backup file,    *)
(* the stored file may be altered, and the file is decoded.                *)
(***************************************************************************)
InitCodec == CodecIdle /\ RestoreIdle /\ DomainsIdle /\ FetchIdle /\ PopupIdle

\* part_004 lines 29-208: encryptData(value, pw) writes a v3 or v4 file
Encrypt ==
    /\ UNCHANGED <<restoreVars, domainVars, fetchVars, popupVars>>
    /\ cpc = "idle"
    /\ \E value \in RecordLists, pw \in Passwords, salt \in Salts :
       \E ivs \in [1..IVsNeeded(value) -> IVs] :
       \E out \in {encryptData(value, pw, salt, ivs)} :
          /\ data' = Some(value)
          /\ password' = Some(pw)
          /\ artifact' = Some(out.file)
          /\ encProgress' = out.progress
          /\ encCalls' = out.calls
    /\ cpc' = "encrypted"
    /\ UNCHANGED <<tampering, decPassword, decResult, decProgress, decCalls>>

\* src/src/utils/crypto.ts lines 26-76: a file written by the v2 encryptData
EncryptV2 ==
    /\ UNCHANGED <<restoreVars, domainVars, fetchVars, popupVars>>
    /\ cpc = "idle"
    /\ \E value \in RecordLists, pw \in Passwords, salt \in Salts, iv \in IVs :
       \E out \in {encryptDataV2(value, pw, salt, iv)} :
          /\ data' = Some(value)
          /\ password' = Some(pw)
          /\ artifact' = Some(out.file)
          /\ encProgress' = out.progress
    /\ cpc' = "encrypted"
    /\ UNCHANGED <<tampering, encCalls, decPassword, decResult, decProgress,
                   decCalls>>

\* the JSON object SJCL's encrypt writes: no version tag, and (part_004
\* line 238) the fields iv, v, iter, mode, salt and ct
LegacyFile(rawData, pw, salt, iv) ==
    [Container(None, Some(salt), Some(iv), None, None, None, None, None)
        EXCEPT !.v = Some(1), !.iter = Some(1000), !.mode = Some("ccm"),
               !.ct = Some(SjclEncrypt(pw, rawData))]

\* a file written by the SJCL-based export of the first releases
EncryptLegacy ==
    /\ UNCHANGED <<restoreVars, domainVars, fetchVars, popupVars>>
    /\ cpc = "idle"
    /\ \E value \in RecordLists, pw \in Passwords, salt \in Salts, iv \in IVs :
          /\ data' = Some(value)
          /\ password' = Some(pw)
          /\ artifact' = Some(LegacyFile(JSONStringify(value), pw, salt, iv))
    /\ cpc' = "encrypted"
    /\ UNCHANGED <<tampering, encProgress, encCalls, decPassword, decResult,
                   decProgress, decCalls>>

\* the checksum values a stored file can be given: the field removed, the
\* empty string, and digests of other texts
AlteredChecksums ==
    { None, Some(<<>>), Some(generateChecksum(<<>>)),
      Some(generateChecksum(<<"[", "]">>)) }

\* the stored file gets another checksum field; a v2 file, written without
\* one, may also be given the digest of its own plaintext
TamperChecksum ==
    /\ UNCHANGED <<restoreVars, domainVars, fetchVars, popupVars>>
    /\ cpc = "encrypted"
    /\ tampering = "none"
    /\ \E c \in AlteredChecksums
                 \cup {Some(generateChecksum(JSONStringify(data[1])))} :
          /\ c # artifact[1].checksum
          /\ artifact' = Some([artifact[1] EXCEPT !.checksum = c])
    /\ tampering' = "checksum"
    /\ UNCHANGED <<cpc, data, password, encProgress, encCalls, decPassword,
                   decResult,
                   decProgress, decCalls>>

\* the bijections of 1..n onto itself
OrdersOf(n) ==
    { f \in [1..n -> 1..n] : \A a, b \in 1..n : f[a] = f[b] => a = b }

\* the chunk list of the stored v4 file is put in another order; each entry
\* keeps its own iv and data
PermuteChunks ==
    /\ UNCHANGED <<restoreVars, domainVars, fetchVars, popupVars>>
    /\ cpc = "encrypted"
    /\ tampering = "none"
    /\ artifact[1].version = Some("v4")
    /\ \E f \in OrdersOf(Len(artifact[1].chunks[1])) :
       \E permuted \in {[k \in DOMAIN f |-> artifact[1].chunks[1][f[k]]]} :
          /\ permuted # artifact[1].chunks[1]
          /\ artifact' = Some([artifact[1] EXCEPT !.chunks = Some(permuted)])
    /\ tampering' = "order"
    /\ UNCHANGED <<cpc, data, password, encProgress, encCalls, decPassword,
                   decResult,
                   decProgress, decCalls>>

\* the checksum field of a file whose chunks were permuted is removed
StripChecksum ==
    /\ UNCHANGED <<restoreVars, domainVars, fetchVars, popupVars>>
    /\ cpc = "encrypted"
    /\ tampering = "order"
    /\ artifact' = Some([artifact[1] EXCEPT !.checksum = None])
    /\ tampering' = "order, no checksum"
    /\ UNCHANGED <<cpc, data, password, encProgress, encCalls, decPassword,
                   decResult, decProgress, decCalls>>

\* list without its k-th entry
RemoveAt(list, k) == SubSeq(list, 1, k - 1) \o SubSeq(list, k + 1, Len(list))

\* list with its k-th entry repeated right after it
RepeatAt(list, k) ==
    SubSeq(list, 1, k) \o <<list[k]>> \o SubSeq(list, k + 1, Len(list))

\* one chunk of the stored v4 file is removed
DropChunk ==
    /\ UNCHANGED <<restoreVars, domainVars, fetchVars, popupVars>>
    /\ cpc = "encrypted"
    /\ tampering = "none"
    /\ artifact[1].version = Some("v4")
    /\ \E k \in DOMAIN artifact[1].chunks[1] :
          artifact' = Some([artifact[1] EXCEPT
                              !.chunks = Some(RemoveAt(artifact[1].chunks[1], k))])
    /\ tampering' = "dropped"
    /\ UNCHANGED <<cpc, data, password, encProgress, encCalls, decPassword,
                   decResult,
                   decProgress, decCalls>>

\* one chunk of the stored v4 file is stored twice
DuplicateChunk ==
    /\ UNCHANGED <<restoreVars, domainVars, fetchVars, popupVars>>
    /\ cpc = "encrypted"
    /\ tampering = "none"
    /\ artifact[1].version = Some("v4")
    /\ \E k \in DOMAIN artifact[1].chunks[1] :
          artifact' = Some([artifact[1] EXCEPT
                              !.chunks = Some(RepeatAt(artifact[1].chunks[1], k))])
    /\ tampering' = "duplicated"
    /\ UNCHANGED <<cpc, data, password, encProgress, encCalls, decPassword,
                   decResult,
                   decProgress, decCalls>>

\* the totalSize field of the stored v4 file is made smaller or larger
AlterTotalSize ==
    /\ UNCHANGED <<restoreVars, domainVars, fetchVars, popupVars>>
    /\ cpc = "encrypted"
    /\ tampering = "none"
    /\ artifact[1].version = Some("v4")
    /\ \E size \in {artifact[1].totalSize[1] - 1, artifact[1].totalSize[1] + 1} :
          artifact' = Some([artifact[1] EXCEPT !.totalSize = Some(size)])
    /\ tampering' = "totalSize"
    /\ UNCHANGED <<cpc, data, password, encProgress, encCalls, decPassword,
                   decResult,
                   decProgress, decCalls>>

\* part_004 lines 219-251: decryptData(fileContent, pw)
Decrypt ==
    /\ UNCHANGED <<restoreVars, domainVars, fetchVars, popupVars>>
    /\ cpc = "encrypted"
    /\ \E pw \in Passwords :
       \E sjcl \in IF Route(artifact[1]) = "decryptLegacy"
                   THEN SjclDecrypt(pw, artifact[1])
                   ELSE {CHOOSE o \in SjclOutcomes : o.kind = "plaintext"} :
       \E out \in {decryptData(artifact[1], pw, sjcl)} :
          /\ decPassword' = Some(pw)
          /\ decResult' = Some(out.result)
          /\ decProgress' = out.progress
          /\ decCalls' = out.calls
    /\ cpc' = "decrypted"
    /\ UNCHANGED <<data, password, artifact, tampering, encProgress, encCalls>>

\* the file contents that are no JSON object: the other JSON values, and a
\* content that JSON.parse rejects
NonObjects ==
    { [kind |-> k] :
        k \in {"null", "number", "string", "boolean", "array", "unparsable"} }

\* a ciphertext for the data field of a hand-made file
SampleData ==
    AesGcmEncrypt(DeriveKey("hunter2", "salt1"), "iv1", UTF8Encode(<<"[", "]">>))

\* what the chunks field of a hand-made file holds: nothing, an empty
\* array, or an empty object
ChunksFields ==
    { [value |-> None, isArray |-> FALSE],
      [value |-> Some(<<>>), isArray |-> TRUE],
      [value |-> Some(<<>>), isArray |-> FALSE] }

\* JSON objects with every combination of the fields decryptData looks at
HandMadeObjects ==
    { [Container(version, salt, iv, bytes, None, chunks.value, None, None)
         EXCEPT !.chunksIsArray = chunks.isArray,
                !.v = legacy.v, !.iter = legacy.iter,
                !.mode = legacy.mode, !.ct = legacy.ct] :
        version \in {None, Some("v2"), Some("v3"), Some("v4"), Some("v9")},
        salt \in {None, Some("salt1")},
        iv \in {None, Some("iv1")},
        bytes \in {None, Some(SampleData)},
        chunks \in ChunksFields,
        legacy \in [v : {None, Some(1)}, iter : {None, Some(1000)},
                    mode : {None, Some("ccm")},
                    ct : {None, Some(OpaqueCiphertext)}] }

\* a file that was not written by encryptData is given to decryptData
Forge ==
    /\ UNCHANGED <<restoreVars, domainVars, fetchVars, popupVars>>
    /\ cpc = "idle"
    /\ \E file \in NonObjects \cup HandMadeObjects : artifact' = Some(file)
    /\ tampering' = "handmade"
    /\ cpc' = "encrypted"
    /\ UNCHANGED <<data, password, encProgress, encCalls, decPassword,
                   decResult,
                   decProgress, decCalls>>

NextDispatch ==
    \/ Forge
    \/ Decrypt

SpecDispatch == InitCodec /\ [][NextDispatch]_vars

NextCodec ==
    \/ Encrypt
    \/ EncryptV2
    \/ EncryptLegacy
    \/ TamperChecksum
    \/ PermuteChunks
    \/ StripChecksum
    \/ DropChunk
    \/ DuplicateChunk
    \/ AlterTotalSize
    \/ Decrypt

SpecCodec == InitCodec /\ [][NextCodec]_vars

(***************************************************************************)
(* Properties of the codec.                                                *)
(***************************************************************************)
Decoded == cpc = "decrypted"
Untouched == tampering = "none"
Version == artifact[1].version
RightPassword == decPassword = password

\* the UTF-8 length of the plaintext that was encoded
PlainLength == Len(UTF8Encode(JSONStringify(data[1])))

\* C8: round trip: decoding an unaltered v3 (single-pass) or v4 (chunked)
\* file written by encryptData, with the password it was written with,
\* returns a value equal to the value that was encoded.
C8_RoundTrip ==
    (Decoded /\ Untouched /\ RightPassword /\ Version \in {Some("v3"), Some("v4")})
        => decResult[1] = [kind |-> "returned", value |-> data[1]]

C8_Witness ==
    /\ Decoded /\ Untouched /\ RightPassword
    /\ Version = Some("v4")
    /\ Len(artifact[1].chunks[1]) = 3
    /\ Len(data[1]) = 2
    /\ data[1][1].n = <<Backslash>>
    /\ data[1][2].n = <<"a", "U+E9">>
    /\ decResult[1].kind = "returned"

\* C9: decoding a v2, v3 or v4 file with a password other than the one it
\* was encrypted with throws the authentication error and returns no data.
C9_WrongPassword ==
    (Decoded /\ ~RightPassword /\ Version \in {Some("v2"), Some("v3"), Some("v4")})
        => decResult[1] = [kind |-> "threw",
                           message |-> "Incorrect password or corrupted file"]

C9_Witness ==
    /\ Decoded /\ ~RightPassword
    /\ Version = Some("v4")
    /\ Untouched
    /\ decResult[1].kind = "threw"

StoredChunkBytes ==
    Len(Flatten([k \in DOMAIN artifact[1].chunks[1] |->
                    artifact[1].chunks[1][k].data.plain]))

\* C11: decoding a v4 file whose stored chunk list was permuted, with the
\* right password, throws the integrity error; no value is returned.
C11_PermutedChunks ==
    (Decoded /\ RightPassword /\ tampering = "order")
        => decResult[1] = [kind |-> "threw",
                           message |-> "Backup file corrupted (checksum mismatch)"]

\* C12: decoding a v4 file with the right password, when the decrypted
\* chunk lengths do not add up to totalSize (a chunk dropped, a chunk
\* duplicated, totalSize altered), throws the integrity error and not the
\* authentication error.
C12_LengthMismatch ==
    ( /\ Decoded /\ RightPassword
      /\ tampering \in {"dropped", "duplicated", "totalSize"}
      /\ StoredChunkBytes # artifact[1].totalSize[1] )
        => decResult[1] = [kind |-> "threw",
                           message |-> "Backup file corrupted (checksum mismatch)"]

\* C13: encryptData writes a v3 single-pass file whenever the UTF-8 length
\* of the plaintext is at most the chunk size (equal included), and a v4
\* file with at least 2 chunks whenever it is larger.
C13_VersionBoundary ==
    (cpc # "idle" /\ Untouched /\ Version \notin {None, Some("v2")})
        => IF PlainLength <= chunkSize
           THEN /\ Version = Some("v3")
                /\ artifact[1].chunks = None
                /\ artifact[1].data # None
           ELSE /\ Version = Some("v4")
                /\ artifact[1].data = None
                /\ Len(artifact[1].chunks[1]) >= 2

C13_Witness ==
    /\ cpc = "encrypted" /\ Untouched
    /\ PlainLength = chunkSize
    /\ Version = Some("v3")

\* C16: a v2 file decodes with the right password without any checksum
\* verification: the value is returned whether the checksum field is
\* absent, present and right, or present and wrong.
C16_V2NoChecksum ==
    ( /\ Decoded /\ RightPassword
      /\ Version = Some("v2")
      /\ tampering \in {"none", "checksum"} )
        => decResult[1] = [kind |-> "returned", value |-> data[1]]

C16_Witness ==
    /\ Decoded /\ RightPassword
    /\ Version = Some("v2")
    /\ artifact[1].checksum = Some(<<"sha256", 91, 93>>)
    /\ data[1] # <<>>
    /\ decResult[1].kind = "returned"

\* the calls of one encode or decode have one total and a completed value
\* that never decreases
Ordered(calls) ==
    \A k \in DOMAIN calls :
        /\ calls[k][2] = calls[1][2]
        /\ k > 1 => calls[k][1] >= calls[k - 1][1]

\* the last call reports completion
Completes(calls) ==
    /\ calls # <<>>
    /\ calls[Len(calls)][1] = calls[Len(calls)][2]

\* C17 (as stated): the progress calls of every encode and decode are
\* ordered, with a constant total and a completed value that never
\* decreases, and the last call made has completed = total, whether the call
\* returns a result or fails.
C17_ProgressAlwaysCompletes ==
    /\ (cpc # "idle" /\ Version \in {Some("v3"), Some("v4")})
          => Ordered(encProgress) /\ Completes(encProgress)
    /\ (Decoded /\ decProgress # <<>>)
          => Ordered(decProgress) /\ Completes(decProgress)

\* C17 (amended): the progress calls of every encode and decode are ordered,
\* with a constant total and a completed value that never decreases; the
\* last call has completed = total in every call that returns a result.  The
\* decode of a legacy file makes no progress call at all.
C17_ProgressCompletesOnReturn ==
    /\ (cpc # "idle" /\ Version \in {Some("v3"), Some("v4")})
          => Ordered(encProgress) /\ Completes(encProgress)
    /\ Decoded => Ordered(decProgress)
    /\ (Decoded /\ decResult[1].kind = "returned" /\ Version # None)
          => Completes(decProgress)
    /\ (Decoded /\ Version = None) => decProgress = <<>>

C17_Witness ==
    /\ Decoded /\ Untouched
    /\ Version = Some("v4")
    /\ decResult[1].kind = "returned"
    /\ Len(artifact[1].chunks[1]) = 3
    /\ decProgress = <<<<0, 4>>, <<1, 4>>, <<2, 4>>, <<3, 4>>, <<4, 4>>, <<4, 4>>>>
    /\ encProgress = decProgress

\* the total of the calls of an encode or decode
TotalOf(calls) == calls[1][2]

\* C18 (as stated): the total reported to the progress callback is one unit
\* for the key derivation plus one per chunk (one cipher unit for
\* single-pass), and is the same for encoding a plaintext and for decoding
\* the file that the encoding produced.
C18_SameTotal ==
    (Decoded /\ Untouched /\ Version \in {Some("v3"), Some("v4")})
        => /\ TotalOf(encProgress)
                = 1 + (IF Version = Some("v3") THEN 1
                       ELSE (PlainLength + chunkSize - 1) \div chunkSize)
           /\ TotalOf(decProgress) = TotalOf(encProgress)

\* C18 (amended): for a chunked (v4) file the total is one unit for the key
\* derivation plus one per chunk, on encode and on decode alike; for
\* single-pass the encode reports a total of 3 and the decode a total of 2.
C18_ProgressTotal ==
    /\ (cpc # "idle" /\ Version = Some("v3")) => TotalOf(encProgress) = 3
    /\ (cpc # "idle" /\ Version = Some("v4"))
          => TotalOf(encProgress)
               = 1 + (PlainLength + chunkSize - 1) \div chunkSize
    /\ (Decoded /\ Version \in {Some("v2"), Some("v3")})
          => TotalOf(decProgress) = 2
    /\ (Decoded /\ Version = Some("v4"))
          => TotalOf(decProgress) = 1 + Len(artifact[1].chunks[1])
    /\ (Decoded /\ Untouched /\ Version = Some("v4"))
          => TotalOf(decProgress) = TotalOf(encProgress)

C18_Witness ==
    /\ Decoded /\ Untouched
    /\ Version = Some("v3")
    /\ TotalOf(encProgress) = 3
    /\ TotalOf(decProgress) = 2
    /\ decResult[1].kind = "returned"

(***************************************************************************)
(* Properties of groupCookiesByDomain and filterCookiesByDomains.          *)
(***************************************************************************)
\* domain, with one leading dot taken off if it has one, is the name
NamedBy(domain, name) ==
    IF domain # <<>> /\ Head(domain) = "."
    THEN Tail(domain) = name
    ELSE domain = name

\* the index of the first record of the input that falls in a group
FirstSeen(name) ==
    CHOOSE k \in DOMAIN cookies :
        /\ NamedBy(cookies[k].domain, name)
        /\ \A m \in 1..(k - 1) : ~NamedBy(cookies[m].domain, name)

\* C19: groupCookiesByDomain puts a record in the group named by its domain
\* without one leading dot, returns the groups by descending member count
\* with ties in first-encountered order, and sets selected on every group.
C19_Grouping ==
    groups # None =>
      LET gs == groups[1] IN
      /\ \A k \in DOMAIN cookies :
            \E j \in DOMAIN gs :
               /\ NamedBy(cookies[k].domain, gs[j].domain)
               /\ \E m \in DOMAIN gs[j].cookies : gs[j].cookies[m] = cookies[k]
      /\ \A j \in DOMAIN gs :
            /\ gs[j].selected = TRUE
            /\ gs[j].cookies # <<>>
            /\ \A m \in DOMAIN gs[j].cookies :
                  NamedBy(gs[j].cookies[m].domain, gs[j].domain)
      /\ \A j, k \in DOMAIN gs :
            j < k =>
              /\ gs[j].domain # gs[k].domain
              /\ Len(gs[j].cookies) >= Len(gs[k].cookies)
              /\ Len(gs[j].cookies) = Len(gs[k].cookies)
                    => FirstSeen(gs[j].domain) < FirstSeen(gs[k].domain)

C19_Witness ==
    /\ groups # None
    /\ Len(cookies) = 3
    /\ cookies[1].domain = <<"b", ".", "c">>
    /\ cookies[2].domain = <<".", "a", ".", "c">>
    /\ cookies[3].domain = <<"a", ".", "c">>
    /\ Len(groups[1]) = 2
    /\ groups[1][1].domain = <<"a", ".", "c">>
    /\ groups[1][1].cookies = <<cookies[2], cookies[3]>>
    /\ groups[1][2].domain = <<"b", ".", "c">>

\* the indices of the records whose domain, without one leading dot, is in
\* the selected set
KeptIndices ==
    { k \in DOMAIN cookies :
        \E name \in selectedDomains : NamedBy(cookies[k].domain, name) }

\* C20: filterCookiesByDomains returns exactly the input records whose
\* dot-stripped domain is in the selected set, in their original order,
\* and leaves the input list as it was; an empty set gives an empty list.
C20_Filtering ==
    [][ filtered' # filtered =>
          /\ cookies' = cookies
          /\ Len(filtered'[1]) = Cardinality(KeptIndices')
          /\ \A j \in DOMAIN filtered'[1] :
                \E k \in KeptIndices' :
                   /\ Cardinality({ m \in KeptIndices' : m <= k }) = j
                   /\ filtered'[1][j] = cookies[k]
          /\ selectedDomains' = {} => filtered'[1] = <<>> ]_vars

C20_Witness ==
    /\ filtered # None
    /\ selectedDomains = {<<"a", ".", "c">>}
    /\ Len(cookies) = 3
    /\ cookies[1].domain = <<".", "a", ".", "c">>
    /\ cookies[2].domain = <<"b", ".", "c">>
    /\ cookies[3].domain = <<"a", ".", "c">>
    /\ filtered[1] = <<cookies[1], cookies[3]>>

\* the records of a list
Members(list) == { list[m] : m \in DOMAIN list }

\* the domains of the returned groups
GroupDomains == { groups[1][j].domain : j \in DOMAIN groups[1] }

RECURSIVE SizesUpTo(_)
\* the member counts of the first n groups, added up
SizesUpTo(n) ==
    IF n = 0 THEN 0 ELSE SizesUpTo(n - 1) + Len(groups[1][n].cookies)

\* the input records that are members of a group whose domain is selected
InSelectedGroups ==
    SelectSeq(cookies,
        LAMBDA c : \E j \in DOMAIN groups[1] :
                      /\ groups[1][j].domain \in selectedDomains
                      /\ c \in Members(groups[1][j].cookies))

\* C37: the groups of groupCookiesByDomain partition the input: every input
\* record is a member of exactly one group, the members of a group are in
\* input order and the group sizes add up to the input length; and
\* filterCookiesByDomains with a set of group domains returns exactly the
\* records of those groups, the whole input when the set holds every group
\* domain.
C37_GroupsPartitionAndFilter ==
    /\ groups # None =>
          LET gs == groups[1] IN
          /\ \A k \in DOMAIN cookies :
                Cardinality({ j \in DOMAIN gs :
                                cookies[k] \in Members(gs[j].cookies) }) = 1
          /\ \A j \in DOMAIN gs :
                gs[j].cookies
                    = SelectSeq(cookies,
                          LAMBDA c : c \in Members(gs[j].cookies))
          /\ SizesUpTo(Len(gs)) = Len(cookies)
    /\ (groups # None /\ filtered # None /\ selectedDomains \subseteq GroupDomains)
          => /\ filtered[1] = InSelectedGroups
             /\ selectedDomains = GroupDomains => filtered[1] = cookies

C37_Witness ==
    /\ groups # None
    /\ filtered # None
    /\ Len(cookies) = 3
    /\ cookies[1].domain = <<".", ".", "a", ".", "c">>
    /\ cookies[2].domain = <<"a", ".", "c">>
    /\ cookies[3].domain = <<".", "a", ".", "c">>
    /\ GroupDomains = {<<"a", ".", "c">>, <<".", "a", ".", "c">>}
    /\ selectedDomains = {<<"a", ".", "c">>}
    /\ filtered[1] = <<cookies[2], cookies[3]>>
    /\ filtered[1] = groups[1][1].cookies

(***************************************************************************)
(* Properties of getAllCookies.                                            *)
(***************************************************************************)
\* the (domain, name, path, partition top-level site) key of a cookie
TupleKey(cookie) ==
    <<cookie.domain, cookie.name, cookie.path, PartitionSite(cookie)>>

\* the cookies of both queries, unpartitioned first
AllFetched == unpartitioned \o partitioned

\* the positions of the first occurrence of each key
FirstOccurrences ==
    { k \in DOMAIN AllFetched :
        \A m \in 1..(k - 1) : TupleKey(AllFetched[m]) # TupleKey(AllFetched[k]) }

\* C38 (as stated): getAllCookies returns the unpartitioned cookies followed
\* by the partitioned ones with duplicates removed: of the cookies sharing a
\* (domain, name, path, partition top-level site) key exactly the first is
\* returned, no two returned cookies share a key, the kept cookies are in
\* their original order, and when the partitioned query fails the
\* unpartitioned cookies are still returned.
C38_Deduplicated ==
    (isExtension /\ fpc = "done")
        => /\ fetched # None
           /\ Len(fetched[1]) = Cardinality(FirstOccurrences)
           /\ \A j \in DOMAIN fetched[1] :
                 \E k \in FirstOccurrences :
                    /\ Cardinality({ m \in FirstOccurrences : m <= k }) = j
                    /\ fetched[1][j] = AllFetched[k]
           /\ \A j, k \in DOMAIN fetched[1] :
                 j # k => TupleKey(fetched[1][j]) # TupleKey(fetched[1][k])
           /\ partitionedQuery = "rejected" => partitioned = <<>>

(***************************************************************************)
(* Properties of the popup.                                                *)
(***************************************************************************)
\* C39 (as stated): at most one restoreCookies call is in flight at any
\* time, whatever the user does, and the result of a restore is never shown
\* on the Backup tab.
C39_OneRestoreInFlight ==
    /\ pending["restoreCookies"] <= 1
    /\ activeTab = "backup" => restoreDetails = "empty"

(***************************************************************************)
(* Properties of the dispatch of decryptData.                              *)
(***************************************************************************)
\* the decoder that decryptData entered
Decoder == IF decCalls = <<>> THEN "none" ELSE decCalls[1]

IsObject == artifact[1].kind = "object"

MatchesV4 ==
    /\ IsObject
    /\ artifact[1].version = Some("v4")
    /\ artifact[1].salt # None
    /\ artifact[1].chunks # None
    /\ artifact[1].chunksIsArray

MatchesV2V3 ==
    /\ IsObject
    /\ artifact[1].version \in {Some("v2"), Some("v3")}
    /\ artifact[1].salt # None
    /\ artifact[1].iv # None
    /\ artifact[1].data # None

LegacyFieldSet ==
    /\ IsObject
    /\ artifact[1].iv # None
    /\ artifact[1].v # None
    /\ artifact[1].iter # None
    /\ artifact[1].mode # None
    /\ artifact[1].ct # None

\* C14 (as stated): decryptData dispatches on structural fields alone: an
\* object that has a chunks field is decoded as v4; an object with salt, iv
\* and data and a version tag of v2 or v3 is decoded as v2/v3; the legacy
\* path is taken only when the version tag is absent and the legacy field
\* set is present.
C14_StructuralDispatch ==
    (Decoded /\ IsObject) =>
        /\ artifact[1].chunks # None => Decoder = "decryptChunked"
        /\ (artifact[1].chunks = None /\ MatchesV2V3)
              => Decoder = "decryptWebCrypto"
        /\ Decoder = "decryptLegacy"
              => (artifact[1].version = None /\ LegacyFieldSet)

\* C14 (amended): decryptData tests the version tag together with the
\* fields, in this order: version 'v4' with salt and an array chunks is
\* decoded as v4; otherwise version 'v2' or 'v3' with salt, iv and data is
\* decoded as v2/v3, chunks or not; otherwise an object with the legacy
\* field set is given to the legacy decoder, whatever its version tag;
\* otherwise the unknown-format error is thrown.
C14_Dispatch ==
    (Decoded /\ IsObject) =>
        /\ Decoder = "decryptChunked" <=> MatchesV4
        /\ Decoder = "decryptWebCrypto" <=> (~MatchesV4 /\ MatchesV2V3)
        /\ Decoder = "decryptLegacy"
              <=> (~MatchesV4 /\ ~MatchesV2V3 /\ LegacyFieldSet)
        /\ decResult[1] = [kind |-> "threw", message |-> "Unknown file format"]
              <=> (~MatchesV4 /\ ~MatchesV2V3 /\ ~LegacyFieldSet)

C14_Witness ==
    /\ Decoded /\ IsObject
    /\ tampering = "handmade"
    /\ artifact[1].version = Some("v3")
    /\ artifact[1].chunks # None /\ artifact[1].chunksIsArray
    /\ MatchesV2V3
    /\ Decoder = "decryptWebCrypto"
    /\ decResult[1].kind = "returned"

\* C15: every parsed JSON value that matches none of the recognized shapes
\* (an object, an array, a number, a string, a boolean, null) makes
\* decryptData throw the unknown-format error, and no key derivation or
\* cipher call is made.
C15_UnknownFormat ==
    ( /\ Decoded
      /\ artifact[1].kind # "unparsable"
      /\ ~MatchesV4 /\ ~MatchesV2V3 /\ ~LegacyFieldSet )
        => /\ decResult[1] = [kind |-> "threw", message |-> "Unknown file format"]
           /\ decCalls = <<>>

(***************************************************************************)
(* Properties of the requests restoreCookies sends to the store.           *)
(***************************************************************************)

\* the record a store call was issued for
RecordOf(call) == cookies[call.idx + 1]

\* a record that went through the primary attempt and the HTTPS retry
Retried(idx) == CallsFor(idx) = 2

\* C21: for a record with hostOnly set, every store-set request issued for
\* it, the primary attempt and the HTTPS retry alike, carries no domain
\* field.
C21_HostOnlyNoDomain ==
    \A n \in DOMAIN setCalls :
        TruthyFlag(RecordOf(setCalls[n]).hostOnly)
            => setCalls[n].req.domain = None

C21_Witness ==
    \E n \in DOMAIN setCalls :
        /\ TruthyFlag(RecordOf(setCalls[n]).hostOnly)
        /\ Retried(setCalls[n].idx)
        /\ pc = "awaitRetry"
        /\ setCalls[n].req.secure
        /\ setCalls[n].req.domain = None

\* C22: for a record with session set, every store-set request issued for
\* it, the primary attempt and the HTTPS retry alike, carries no
\* expirationDate field.
C22_SessionNoExpiration ==
    \A n \in DOMAIN setCalls :
        TruthyFlag(RecordOf(setCalls[n]).session)
            => setCalls[n].req.expirationDate = None

C22_Witness ==
    \E n \in DOMAIN setCalls :
        /\ TruthyFlag(RecordOf(setCalls[n]).session)
        /\ RecordOf(setCalls[n]).expirationDate # None
        /\ Retried(setCalls[n].idx)
        /\ pc = "awaitRetry"
        /\ setCalls[n].req.secure
        /\ setCalls[n].req.expirationDate = None

\* C23: only non-session records are skipped for expiry: a record with the
\* session flag set is never marked 'skipped', and a primary store-set
\* attempt is issued for it even when its expirationDate lies in the past.
C23_SessionNeverSkipped ==
    \A k \in 1..Len(details) :
        (isExtension /\ TruthyFlag(cookies[k].session))
            => /\ details[k].status # "skipped"
               /\ CallsFor(k - 1) >= 1

\* C24: a store-set request carries a sameSite field if and only if the
\* record's sameSite is one of no_restriction, lax or strict (and then it is
\* the record's value); for a record whose sameSite is 'unspecified' or
\* absent the field is omitted from every request.
C24_SameSiteOnlyEnforceable ==
    \A n \in DOMAIN setCalls :
        LET recorded == RecordOf(setCalls[n]).sameSite
            sent == setCalls[n].req.sameSite
        IN  /\ sent # None <=>
                   recorded \in {<<"no_restriction">>, <<"lax">>, <<"strict">>}
            /\ sent # None => sent = recorded
            /\ recorded \in {<<>>, <<"unspecified">>} => sent = None

C24_Witness ==
    \E n, m \in DOMAIN setCalls :
        /\ RecordOf(setCalls[n]).sameSite = <<"strict">>
        /\ setCalls[n].req.sameSite = <<"strict">>
        /\ RecordOf(setCalls[m]).sameSite = <<"unspecified">>
        /\ setCalls[m].req.sameSite = <<>>
        /\ Retried(setCalls[m].idx)

\* a store call is outstanding: issued and not yet settled
Outstanding(n) ==
    \/ n = Len(setCalls) /\ pc \in {"awaitPrimary", "awaitRetry"}

\* C25: records are processed strictly in input order with no concurrency:
\* at most one store-set call is outstanding at any time (every call but the
\* last has settled: its record has an outcome, or it is the failed primary
\* attempt the outstanding retry follows), and a call for a record is issued
\* only after the outcome of every earlier record has been recorded and
\* its onProgress call has returned.
C25_Sequential ==
    \A n \in DOMAIN setCalls :
        LET c == setCalls[n] IN
        /\ n > 1 => setCalls[n - 1].idx <= c.idx
        /\ CallsFor(c.idx) <= 2
        /\ Len(details) >= c.idx
        /\ onProgress = "given" => Len(progressCalls) >= c.idx
        /\ pc # "rejected" => Len(progressCalls) \in {0, Len(details)}
        /\ Len(details) = c.idx =>
              /\ c.idx = i
              /\ \/ Outstanding(n)
                 \/ /\ Outstanding(n + 1)
                    /\ pc = "awaitRetry"
                    /\ primaryRes \in Rejections

C25_Witness ==
    /\ onProgress = "given"
    /\ Len(setCalls) = 3
    /\ Retried(0)
    /\ setCalls[3].idx = 1
    /\ Outstanding(3)
    /\ Len(details) = 1
    /\ progressCalls = <<(<<1, 2>>)>>

\* the second of two runs has resolved
SecondRunDone == pc = "done" /\ earlier # None

\* the expiry check came out the same for every record in both runs
SameExpired ==
    \A k \in 1..Len(cookies) :
        earlier[1].summary.details[k].status = "skipped"
            <=> details[k].status = "skipped"

\* C26 as stated: running restoreCookies twice on the same list against a
\* store that answers the same way issues the same sequence of store-set
\* calls in the second run as in the first and returns the same summary.
C26_SameCallsAndSummary ==
    SecondRunDone =>
        /\ setCalls = earlier[1].calls
        /\ result[1] = earlier[1].summary

\* C26: restore keeps no memory of earlier runs.  When no record has
\* expired between the two runs, the second run issues the same sequence of
\* store-set calls as the first (every non-skipped record is set again) and
\* returns the same summary; in any case a record is left out of the second
\* run only by the expiry check.
C26_NoMemory ==
    SecondRunDone =>
        /\ SameExpired => /\ setCalls = earlier[1].calls
                          /\ result[1] = earlier[1].summary
        /\ \A k \in 1..Len(cookies) :
              \/ CallsFor(k - 1) >= 1 /\ details[k].status # "skipped"
              \/ /\ CallsFor(k - 1) = 0
                 /\ details[k].status = "skipped"
                 /\ IsExpired(cookies[k], now)
        /\ result[1].success + result[1].failed + result[1].skipped
               = Len(cookies)

C26_Witness ==
    /\ SecondRunDone
    /\ SameExpired
    /\ Len(setCalls) = 3
    /\ setCalls = earlier[1].calls
    /\ result[1].failed >= 1
    /\ result[1].success >= 1
    /\ now = 3

\* C27: restoreCookies never mutates an input record or the input list: no
\* step of a restore, the HTTPS retry that forces secure = true on the
\* request draft included, changes the list or any field of a record.
C27_InputUntouched == [][cookies' = cookies]_vars

C27_Witness ==
    /\ pc = "awaitRetry"
    /\ setDetails.secure
    /\ setCalls[Len(setCalls)].req.secure
    /\ ~cookies[i + 1].secure

(***************************************************************************)
(* Properties of the legacy path and of the chunked container.             *)
(***************************************************************************)

\* the stored file is as its writer wrote it, but for the checksum field
BodyUntouched == tampering \in {"none", "checksum"}

\* C28: an artifact in the legacy format (no version tag, legacy cipher
\* field set present) is routed to the legacy decrypt with the whole file
\* content and the password, and with the correct password decode returns
\* the original records; no checksum is required or verified on this path
\* (the file has none, and one added to it changes nothing).
C28_LegacyDecode ==
    (Decoded /\ BodyUntouched /\ Version = None) =>
        /\ decCalls = <<"decryptLegacy", "sjcl.decrypt">>
        /\ decProgress = <<>>
        /\ RightPassword => decResult[1] = Returned(data[1])
        /\ ~RightPassword => decResult[1].kind = "threw"

C28_Witness ==
    /\ Decoded
    /\ Version = None
    /\ tampering = "checksum"
    /\ artifact[1].checksum = Some(generateChecksum(<<>>))
    /\ RightPassword
    /\ Len(data[1]) > 0
    /\ decResult[1] = Returned(data[1])

\* the UTF-8 bytes of the plaintext that was encoded
PlainBytes == UTF8Encode(JSONStringify(data[1]))

\* a v4 file as encryptData wrote it
WrittenChunked == cpc # "idle" /\ Untouched /\ Version = Some("v4")

\* C29: in every v4 container written by encryptData for a plaintext of
\* totalSize bytes and chunk size c there are ceil(totalSize / c) chunks,
\* chunk i (0-based) holds the plaintext bytes [i*c, min((i+1)*c, totalSize)),
\* every chunk but the last holds exactly c bytes, the last holds between 1
\* and c bytes, and the chunk lengths in stored order add up to the
\* recorded totalSize.
C29_ChunkLayout ==
    WrittenChunked =>
        LET chunks == artifact[1].chunks[1]
            c == artifact[1].chunkSize[1]
            totalSize == artifact[1].totalSize[1]
            n == Len(chunks)
            plain == PlainBytes
            Held(k) == chunks[k].data.plain
            Upto(k) == IF k * c < totalSize THEN k * c ELSE totalSize
        IN  /\ c = chunkSize
            /\ totalSize = Len(plain)
            /\ (n - 1) * c < totalSize /\ totalSize <= n * c
            /\ \A k \in 1..n :
                  /\ Held(k) = SubSeq(plain, (k - 1) * c + 1, Upto(k))
                  /\ k < n => Len(Held(k)) = c
            /\ Len(Held(n)) \in 1..c
            /\ StoredChunkBytes = totalSize

C29_Witness ==
    /\ WrittenChunked
    /\ cpc = "encrypted"
    /\ Len(artifact[1].chunks[1]) = 3
    /\ Len(artifact[1].chunks[1][1].data.plain) = chunkSize
    /\ Len(artifact[1].chunks[1][3].data.plain) \in 1..(chunkSize - 1)
    /\ StoredChunkBytes = artifact[1].totalSize[1]

\* how many times a call occurs in a call log
Count(calls, name) == Cardinality({ k \in DOMAIN calls : calls[k] = name })

\* every call named first comes before every call named then
Before(calls, first, then) ==
    \A j, k \in DOMAIN calls :
        (calls[j] = first /\ calls[k] = then) => j < k

\* C30: in one chunked encode or decode call the key is derived exactly once
\* from the container's single salt before any chunk is processed, every
\* chunk is encrypted or decrypted with that one key, and the encode draws
\* exactly one nonce per chunk (number of nonces = number of chunks).
C30_OneKeyOneNoncePerChunk ==
    /\ WrittenChunked =>
          LET chunks == artifact[1].chunks[1]
              key == DeriveKey(password[1], artifact[1].salt[1])
          IN  /\ encCalls[1] = "encryptChunked"
              /\ Count(encCalls, "getRandomValues(16)") = 1
              /\ Count(encCalls, "deriveKey") = 1
              /\ Before(encCalls, "getRandomValues(16)", "deriveKey")
              /\ Before(encCalls, "deriveKey", "getRandomValues(12)")
              /\ Before(encCalls, "deriveKey", "encrypt")
              /\ Count(encCalls, "encrypt") = Len(chunks)
              /\ Count(encCalls, "getRandomValues(12)") = Len(chunks)
              /\ \A j \in DOMAIN encCalls :
                    encCalls[j] = "encrypt"
                        => encCalls[j - 1] = "getRandomValues(12)"
              /\ \A k \in DOMAIN chunks :
                    /\ chunks[k].data.key = key
                    /\ chunks[k].data.iv = chunks[k].iv
    /\ (Decoded /\ decCalls # <<>> /\ decCalls[1] = "decryptChunked") =>
          LET chunks == artifact[1].chunks[1]
              key == DeriveKey(decPassword[1], artifact[1].salt[1])
          IN  /\ Count(decCalls, "deriveKey") = 1
              /\ Before(decCalls, "deriveKey", "decrypt")
              /\ Count(decCalls, "decrypt") <= Len(chunks)
              /\ decResult[1].kind = "returned" =>
                    /\ Count(decCalls, "decrypt") = Len(chunks)
                    /\ \A k \in DOMAIN chunks : chunks[k].data.key = key

C30_Witness ==
    /\ Decoded /\ WrittenChunked /\ RightPassword
    /\ decResult[1].kind = "returned"
    /\ Len(artifact[1].chunks[1]) = 3
    /\ artifact[1].chunks[1][1].iv # artifact[1].chunks[1][2].iv
    /\ Count(encCalls, "getRandomValues(12)") = 3
    /\ Count(decCalls, "decrypt") = 3

(***************************************************************************)
(* Further properties of restoreCookies.                                   *)
(***************************************************************************)

\* C31: in every store-set request, primary or retry, the URL scheme is
\* https if and only if the request's secure field is true, the URL host is
\* the record's domain with one leading dot stripped, and the URL path is
\* the record's path.
C31_RequestUrl ==
    \A n \in DOMAIN setCalls :
        LET req == setCalls[n].req
            record == RecordOf(setCalls[n])
            scheme == IF req.secure THEN <<"http", "s">> ELSE <<"http">>
            host == IF record.domain # <<>> /\ record.domain[1] = "."
                    THEN SubSeq(record.domain, 2, Len(record.domain))
                    ELSE record.domain
        IN  /\ req.url = scheme \o <<"://">> \o host \o record.path
            /\ req.path = record.path

C31_Witness ==
    /\ pc = "awaitRetry"
    /\ Len(setCalls) = 2
    /\ RecordOf(setCalls[1]).domain = <<".", "a", ".", "c">>
    /\ ~setCalls[1].req.secure
    /\ setCalls[1].req.url = <<"http", "://", "a", ".", "c", "/">>
    /\ setCalls[2].req.secure
    /\ setCalls[2].req.url = <<"http", "s", "://", "a", ".", "c", "/">>

\* the store calls a finished record must have had: none if it was skipped,
\* two if it is insecure and its primary attempt failed (it failed, or it
\* succeeded on the upgrade), one otherwise
CallsDue(k) ==
    IF details[k].status = "skipped" THEN 0
    ELSE IF /\ ~cookies[k].secure
            /\ \/ details[k].status = "failed"
               \/ details[k].reason = Some("Upgraded to HTTPS")
    THEN 2
    ELSE 1

RetryBounded ==
    /\ \A k \in 1..Len(details) : CallsFor(k - 1) = CallsDue(k)
    /\ \A k \in 1..Len(cookies) : CallsFor(k - 1) <= 2
    /\ Len(setCalls) <= 2 * Len(cookies)

\* the call has ended: the promise resolved, or rejected with what the
\* progress callback threw
Ended == pc \in {"done", "rejected"}

\* C32: the retry is bounded: 0 store-set calls for a skipped record, exactly
\* 1 for a record whose primary attempt succeeds or whose secure flag is
\* true, exactly 2 for an insecure record whose primary attempt fails, so at
\* most 2N calls for N records; and the restore ends provided every store
\* call eventually settles.
C32_BoundedRetry == []RetryBounded /\ <>Ended

C32_Witness ==
    /\ pc = "done"
    /\ Len(cookies) = 2
    /\ ~cookies[1].secure
    /\ details[1].status = "failed"
    /\ CallsFor(0) = 2
    /\ details[2].status = "skipped"
    /\ CallsFor(1) = 0

\* C34: when both attempts for an insecure record fail, the recorded reason
\* is the message of the retry's error whatever the primary's error was, and
\* "Unknown error" when the retry's rejection value is not an Error.
C34_RetryErrorReported ==
    (JustAttempted /\ ~LastCookie.secure
       /\ primaryRes \in Rejections /\ retryRes \in Rejections)
        => /\ LastDetail.status = "failed"
           /\ retryRes.kind = "Error"
                 => LastDetail.reason = Some(retryRes.message)
           /\ retryRes.kind # "Error"
                 => LastDetail.reason = Some("Unknown error")

C34_Witness ==
    /\ JustAttempted
    /\ ~LastCookie.secure
    /\ primaryRes = [kind |-> "Error", message |-> "Permission denied"]
    /\ retryRes = [kind |-> "nonError"]
    /\ LastDetail.status = "failed"
    /\ LastDetail.reason = Some("Unknown error")

\* C35: outside an extension environment restoreCookies resolves with every
\* input record reported as success (success = N, failed = 0, skipped = 0),
\* records whose expiration is in the past included, and neither the store
\* nor onProgress is ever called.
C35_SimulatedOutsideExtension ==
    ~isExtension
        => /\ pc \in {"idle", "done"}
           /\ setCalls = <<>>
           /\ progressCalls = <<>>
           /\ pc = "done"
                 => /\ result # None
                    /\ result[1].success = Len(cookies)
                    /\ result[1].failed = 0
                    /\ result[1].skipped = 0
                    /\ Len(result[1].details) = Len(cookies)
                    /\ \A k \in 1..Len(cookies) :
                          /\ result[1].details[k].status = "success"
                          /\ result[1].details[k].name = cookies[k].name
                          /\ result[1].details[k].domain = cookies[k].domain

C35_Witness ==
    /\ ~isExtension
    /\ pc = "done"
    /\ onProgress = "given"
    /\ Len(cookies) = 2
    /\ \E t \in ClockReadings : IsExpired(cookies[1], t)
    /\ \A t \in ClockReadings : ~IsExpired(cookies[2], t)
    /\ result[1].success = 2
    /\ result[1].details[1].status = "success"
    /\ progressCalls = <<>>

\* C36: a throw of the onProgress callback is not caught.  The call is
\* rejected right after the outcome of the current record was recorded: no
\* later record is looked at, no summary is returned and no further step is
\* taken, the store calls made so far stay made; so a summary, when one is
\* returned, covers every record.
C36_CallbackThrowAborts ==
    /\ pc = "rejected"
          => /\ onProgress = "given"
             /\ result = None
             /\ Len(details) = i + 1
             /\ progressCalls[Len(progressCalls)] = <<i + 1, total>>
             /\ \A n \in DOMAIN setCalls : setCalls[n].idx <= i
             /\ \A k \in 1..Len(details) :
                   details[k].status # "skipped" => CallsFor(k - 1) >= 1
             /\ ~ENABLED NextSettling
    /\ (isExtension /\ result # None)
          => Len(result[1].details) = total

C36_Witness ==
    /\ pc = "rejected"
    /\ total = 2
    /\ i = 0
    /\ details = <<Detail(cookies[1], "success", None)>>
    /\ Len(setCalls) = 1
    /\ result = None

(***************************************************************************)
(* Further properties of the codec.                                        *)
(***************************************************************************)

\* the stored file has no checksum to verify: the field is missing or empty
NoChecksum == artifact[1].checksum \in {None, Some(<<>>)}

=============================================================================
